---- MODULE Spec2Model ----
(***************************************************************************)
(* Crawl4AI Cloud SDK (python/crawl4ai_cloud): the HTTP transport's       *)
(* retry loop (HTTPClient.request) and the crawl client's polling loops   *)
(* (AsyncWebCrawler.wait_job, _wait_scan_job, deep_crawl), run against a  *)
(* server that answers every HTTP attempt nondeterministically.           *)
(***************************************************************************)
EXTENDS Integers, Sequences, FiniteSets, TLC

\* ------------------------------------------------------------------ bounds
\* max_retries passed to the constructor ranges over 0..MaxRetriesArg
MaxRetriesArg == 3
\* timeout arguments range over None, 1..MaxTimeout (seconds)
MaxTimeout == 2
\* poll_interval arguments range over 1..MaxPollInterval (seconds)
MaxPollInterval == 2
\* discovered_urls reported by the server ranges over 0..MaxDiscovered
MaxDiscovered == 1
\* a loop that has no effective timeout is followed for this many sleeps
MaxPolls == 1
\* url lists given to run_many and generate_schema have up to MaxUrlList items
MaxUrlList == 4
\* config dicts carry up to MaxConfigKeys keys, and config objects up to
\* MaxConfigKeys fields that differ from their defaults
MaxConfigKeys == 2
\* calls made one after another on one crawler, and calls of close() on it
MaxCalls == 2
MaxCloses == 3
\* tasks of the host that call the plugin, tool calls they make in all, and
\* changes of the configured mode
MaxTasks == 2
MaxToolCalls == 3
MaxModeChanges == 1


\* Python's None
None == -1

\* ----------------------------------------------------------------- strings
\* A Python str is a sequence of one-character strings.
UPPERCASE == <<"A", "B", "C", "D", "E", "F", "G", "H", "I", "J", "K", "L", "M",
              "N", "O", "P", "Q", "R", "S", "T", "U", "V", "W", "X", "Y", "Z">>
LOWERCASE == <<"a", "b", "c", "d", "e", "f", "g", "h", "i", "j", "k", "l", "m",
              "n", "o", "p", "q", "r", "s", "t", "u", "v", "w", "x", "y", "z">>
DIGITS == {"0", "1", "2", "3", "4", "5", "6", "7", "8", "9"}

LowerChar(c) ==
    IF \E i \in 1..26 : UPPERCASE[i] = c
      THEN LOWERCASE[CHOOSE i \in 1..26 : UPPERCASE[i] = c]
      ELSE c

\* str.lower()
Lower(s) == [i \in DOMAIN s |-> LowerChar(s[i])]

\* sub in s
Contains(s, sub) ==
    \E i \in 0..(Len(s) - Len(sub)) :
        \A j \in 1..Len(sub) : s[i + j] = sub[j]

\* s.startswith(p)
StartsWith(s, p) ==
    Len(s) >= Len(p) /\ SubSeq(s, 1, Len(p)) = p

\* s.find(sub): the offset of the first occurrence, -1 when there is none
Find(s, sub) ==
    IF Contains(s, sub)
      THEN CHOOSE i \in 0..(Len(s) - Len(sub)) :
             /\ \A j \in 1..Len(sub) : s[i + j] = sub[j]
             /\ \A k \in 0..(i - 1) : \E j \in 1..Len(sub) : s[k + j] # sub[j]
      ELSE -1

\* s.rfind(sub)
RFind(s, sub) ==
    IF Contains(s, sub)
      THEN CHOOSE i \in 0..(Len(s) - Len(sub)) :
             /\ \A j \in 1..Len(sub) : s[i + j] = sub[j]
             /\ \A k \in (i + 1)..(Len(s) - Len(sub)) :
                  \E j \in 1..Len(sub) : s[k + j] # sub[j]
      ELSE -1

\* s[i:] and s[:i] for 0 <= i <= len(s)
From(s, i) == SubSeq(s, i + 1, Len(s))
UpTo(s, i) == SubSeq(s, 1, i)

\* s.split(sep)[0]
SplitHead(s, sep) ==
    IF Contains(s, sep) THEN UpTo(s, Find(s, sep)) ELSE s

\* s.split(sep)[1], for a string that contains sep
SplitSecond(s, sep) ==
    SplitHead(From(s, Find(s, sep) + Len(sep)), sep)

\* s.strip(): the white space of the model is the blank
Strip(s) ==
    IF \A i \in 1..Len(s) : s[i] = " " THEN <<>>
    ELSE LET a == CHOOSE i \in 1..Len(s) :
                    s[i] # " " /\ \A k \in 1..(i - 1) : s[k] = " "
             b == CHOOSE i \in 1..Len(s) :
                    s[i] # " " /\ \A k \in (i + 1)..Len(s) : s[k] = " "
         IN  SubSeq(s, a, b)

\* s.isdigit()
IsDigit(s) == Len(s) > 0 /\ \A i \in 1..Len(s) : s[i] \in DIGITS

RATE_LIMIT == <<"r", "a", "t", "e", " ", "l", "i", "m", "i", "t">>

\* a JSON value: a string, or something else (a list or an object)
Str(chars) == [str |-> TRUE, chars |-> chars]
NonString == [str |-> FALSE]

IsStr(v) == v.str

\* detail values a server may send
DetailStrings ==
    { Str(<<"R", "a", "t", "e", " ", "L", "i", "m", "i", "t">>),
      Str(<<"a", " ", "r", "a", "t", "e", " ", "l", "i", "m", "i", "t">>),
      Str(<<"r", "a", "t", "e", "l", "i", "m", "i", "t">>),
      Str(<<"Q", "u", "o", "t", "a">>) }

\* ----------------------------------------------------------- configs.py
\* normalize_url returns (normalized, was_modified) or raises ValueError
Normalized(u, m) == [ok |-> TRUE, url |-> u, was_modified |-> m]
ValueError(msg) == [ok |-> FALSE, error |-> msg]

VALID_SCHEMES == { <<"h", "t", "t", "p">>, <<"h", "t", "t", "p", "s">> }
INVALID_SCHEMES == { <<"j", "a", "v", "a", "s", "c", "r", "i", "p", "t">>, <<"d", "a", "t", "a">>, <<"f", "t", "p">>, <<"f", "i", "l", "e">>,
                     <<"m", "a", "i", "l", "t", "o">>, <<"t", "e", "l">> }

\* LOCALHOST_PATTERN.match(url): ^localhost(?::\d+)?(?:/|$), ignoring case
LOCALHOST_PATTERN(url) ==
    LET seg == Lower(SplitHead(url, <<"/">>))
    IN  \/ seg = <<"l", "o", "c", "a", "l", "h", "o", "s", "t">>
        \/ /\ StartsWith(seg, <<"l", "o", "c", "a", "l", "h", "o", "s", "t", ":">>)
           /\ IsDigit(From(seg, Len(<<"l", "o", "c", "a", "l", "h", "o", "s", "t", ":">>)))

\* (?:\d{1,3}\.){3}\d{1,3}
IsDottedQuad(h) ==
    \E i, j, k \in 1..Len(h) :
        /\ i < j /\ j < k
        /\ h[i] = "." /\ h[j] = "." /\ h[k] = "."
        /\ \A part \in { SubSeq(h, 1, i - 1), SubSeq(h, i + 1, j - 1),
                         SubSeq(h, j + 1, k - 1), SubSeq(h, k + 1, Len(h)) } :
             IsDigit(part) /\ Len(part) <= 3

\* IP_PATTERN.match(url): ^(?:\d{1,3}\.){3}\d{1,3}(?::\d+)?(?:/|$)
IP_PATTERN(url) ==
    LET seg == SplitHead(url, <<"/">>)
    IN  IF Contains(seg, <<":">>)
          THEN /\ IsDottedQuad(SplitHead(seg, <<":">>))
               /\ IsDigit(From(seg, Find(seg, <<":">>) + 1))
          ELSE IsDottedQuad(seg)

\* the characters urllib accepts in a scheme
IsSchemeChars(s) ==
    /\ Len(s) > 0
    /\ LowerChar(s[1]) \in { LOWERCASE[i] : i \in 1..26 }
    /\ \A i \in 1..Len(s) :
         \/ LowerChar(s[i]) \in { LOWERCASE[k] : k \in 1..26 }
         \/ s[i] \in DIGITS \cup {"+", "-", "."}

\* the offset of the first of the characters cs in s, len(s) when none
FindAny(s, cs) ==
    IF \E i \in 1..Len(s) : s[i] \in cs
      THEN (CHOOSE i \in 1..Len(s) :
              s[i] \in cs /\ \A k \in 1..(i - 1) : s[k] \notin cs) - 1
      ELSE Len(s)

\* the value of a set of one value; { e(x) : x \in {v} } computes v once
\* however often e uses it
The(S) == CHOOSE x \in S : TRUE

\* urllib.parse.urlparse, for URLs without ';' parameters: r0 is the url
\* after its scheme, r1 after its netloc, r2 without its fragment
urlparse(url) ==
    LET i == Find(url, <<":">>)
        hasScheme == i > 0 /\ IsSchemeChars(UpTo(url, i))
    IN  The({
          LET hasNetloc == StartsWith(r0, <<"/", "/">>)
              d == FindAny(From(r0, 2), {"/", "?", "#"})
          IN  The({
                The({ [scheme |-> IF hasScheme THEN Lower(UpTo(url, i))
                                               ELSE <<>>,
                       netloc |-> IF hasNetloc THEN UpTo(From(r0, 2), d)
                                               ELSE <<>>,
                       path |-> SplitHead(r2, <<"?">>),
                       params |-> <<>>,
                       query |-> IF Contains(r2, <<"?">>)
                                   THEN From(r2, Find(r2, <<"?">>) + 1)
                                   ELSE <<>>,
                       fragment |-> IF Contains(r1, <<"#">>)
                                      THEN From(r1, Find(r1, <<"#">>) + 1)
                                      ELSE <<>>] :
                      r2 \in {SplitHead(r1, <<"#">>)} }) :
                r1 \in {IF hasNetloc THEN From(From(r0, 2), d) ELSE r0} }) :
          r0 \in {IF hasScheme THEN From(url, i + 1) ELSE url} })

\* urllib.parse.urlunparse of (scheme, netloc, path, '', query, '') for the
\* schemes http and https, which use a netloc
urlunparse(scheme, netloc, path, query) ==
    LET u0 == path
        u1 == IF netloc # <<>> \/ ~StartsWith(u0, <<"/", "/">>)
                THEN <<"/", "/">> \o netloc \o
                     (IF u0 # <<>> /\ u0[1] # "/" THEN <<"/">> \o u0 ELSE u0)
                ELSE u0
        u2 == IF scheme # <<>> THEN scheme \o <<":">> \o u1 ELSE u1
    IN  IF query # <<>> THEN u2 \o <<"?">> \o query ELSE u2

\* normalize_url, lines 100-133: parse, lower-case, drop the default port,
\* the root path and the fragment, rebuild
normalize_parsed(original, url) ==
    The({
      LET scheme == parsed.scheme
          netloc0 == parsed.netloc
          c == RFind(netloc0, <<":">>)
          port == From(netloc0, c + 1)
          isDefault == \/ scheme = <<"h", "t", "t", "p", "s">> /\ port = <<"4", "4", "3">>
                       \/ scheme = <<"h", "t", "t", "p">> /\ port = <<"8", "0">>
          netloc == IF c >= 0 /\ isDefault THEN UpTo(netloc0, c) ELSE netloc0
          path == IF parsed.path = <<"/">> THEN <<>> ELSE parsed.path
      IN  The({ Normalized(normalized, normalized # original) :
                  normalized \in {urlunparse(scheme, netloc, path,
                                             parsed.query)} }) :
      parsed \in { [p EXCEPT !.scheme = Lower(p.scheme),
                             !.netloc = Lower(p.netloc)] :
                     p \in {urlparse(url)} } })

\* normalize_url, for a str argument
normalize_url(url) ==
    IF url = <<>> \/ Strip(url) = <<>>
      THEN ValueError("URL cannot be empty")
    ELSE
      The({
        LET seg == SplitHead(u1, <<"/">>)
        IN  IF Contains(u1, <<":", "/", "/">>)
              THEN LET scheme == Lower(SplitHead(u1, <<":", "/", "/">>))
                   IN  IF scheme \in INVALID_SCHEMES
                         THEN ValueError("Invalid URL scheme")
                       ELSE IF scheme \notin VALID_SCHEMES
                         THEN ValueError("Invalid URL scheme")
                       ELSE normalize_parsed(url, u1)
            ELSE IF LOCALHOST_PATTERN(u1) \/ IP_PATTERN(u1)
              THEN normalize_parsed(url, <<"h", "t", "t", "p", ":", "/", "/">> \o u1)
            ELSE IF Contains(seg, <<":">>) /\ ~IsDigit(SplitSecond(seg, <<":">>))
              THEN ValueError("Invalid URL format")
            ELSE normalize_parsed(url, <<"h", "t", "t", "p", "s", ":", "/", "/">> \o u1) :
        u1 \in { IF StartsWith(u0, <<"/", "/">>)
                   THEN <<"h", "t", "t", "p", "s", ":">> \o u0 ELSE u0 :
                 u0 \in {Strip(url)} } })

\* ---- Python values of the arguments
\* None, and a list, next to Str(chars); a dict is a function from keys
PyNone == [str |-> FALSE, none |-> TRUE]
PyList(items) == [str |-> FALSE, items |-> items]
IsNone(v) == "none" \in DOMAIN v
IsList(v) == "items" \in DOMAIN v
\* bool(v) for None, a str or a list
PyTruthy(v) ==
    IF IsNone(v) THEN FALSE
    ELSE IF IsList(v) THEN v.items # <<>>
    ELSE v.chars # <<>>

\* the empty dict
EmptyMap == <<>>
\* None as the value of a config field
NoneField == "<None>"

\* ---- configuration sanitization
CRAWLER_CONFIG_SANITIZE_FIELDS ==
    {"cache_mode", "session_id", "bypass_cache", "no_cache_read",
     "no_cache_write", "disable_cache"}

BROWSER_CONFIG_SANITIZE_FIELDS ==
    {"cdp_url", "create_isolated_context", "cdp_cleanup_on_close",
     "browser_context_id", "target_id", "use_managed_browser",
     "browser_mode", "user_data_dir", "chrome_channel"}

\* CrawlerRunConfig: two of its content fields and its six cache fields,
\* with their defaults
CrawlerRunConfig_defaults ==
    [css_selector |-> NoneField, screenshot |-> "False",
     cache_mode |-> NoneField, session_id |-> NoneField,
     bypass_cache |-> "False", no_cache_read |-> "False",
     no_cache_write |-> "False", disable_cache |-> "False"]

\* BrowserConfig: two of its browser fields and its cloud-controlled fields,
\* with their defaults
BrowserConfig_defaults ==
    [headless |-> "True", user_agent |-> NoneField,
     chrome_channel |-> NoneField, cdp_url |-> NoneField,
     use_managed_browser |-> "False", browser_mode |-> NoneField,
     user_data_dir |-> NoneField]

\* a config argument: None, a dict, a dataclass instance (its fields), an
\* object whose dump() gives {type, params}, or some other object
NoConfig == [form |-> "None"]
DictConfig(d) == [form |-> "dict", data |-> d]
DataclassConfig(f) == [form |-> "dataclass", data |-> f]
DumpedConfig(p) == [form |-> "dumped", data |-> p]
OtherConfig == [form |-> "other"]

\* bool(config)
ConfigTruthy(config) ==
    CASE config.form = "None" -> FALSE
      [] config.form = "dict" -> DOMAIN config.data # {}
      [] OTHER -> TRUE

\* d without the keys ks: data.pop(fld, None) for every fld of ks
Without(d, ks) == [k \in (DOMAIN d) \ ks |-> d[k]]

\* CrawlerRunConfig.dump / BrowserConfig.dump: asdict without the None values
dump(fields) ==
    [k \in { f \in DOMAIN fields : fields[f] # NoneField } |-> fields[k]]

\* lines 354-363 and 392-400: the dict representation of a config
ConfigData(config) ==
    CASE config.form = "dataclass" -> dump(config.data)
      [] config.form = "dumped" -> config.data
      [] config.form = "dict" -> config.data
      [] OTHER -> EmptyMap

\* a sanitizer that forgets session_id
sanitize_crawler_config_KeepsSession(config) ==
    Without(ConfigData(config), CRAWLER_CONFIG_SANITIZE_FIELDS \ {"session_id"})

\* sanitize_crawler_config
sanitize_crawler_config(config) ==
    Without(ConfigData(config), CRAWLER_CONFIG_SANITIZE_FIELDS)

\* sanitize_browser_config
sanitize_browser_config(config, strategy) ==
    IF config.form = "None" THEN EmptyMap
    ELSE IF strategy = "http" /\ ConfigTruthy(config) THEN EmptyMap
    ELSE Without(ConfigData(config), BROWSER_CONFIG_SANITIZE_FIELDS)

\* ---- request bodies
\* {key: value} when cond holds, nothing otherwise
Entry(cond, key, value) == IF cond THEN key :> value ELSE EmptyMap

\* a body, or the ValueError that building it raised
Built(b) == [ok |-> TRUE, body |-> b]

\* the normalized forms of a list of urls
NormalizedList(items) == [i \in DOMAIN items |-> normalize_url(items[i].chars)]

\* build_crawl_request with proxy and bypass_cache at their defaults; extra
\* are the keyword arguments passed through
build_crawl_request(url, urls, config, browser_config, strategy, extra) ==
    The({
      IF ~n.ok THEN n
      ELSE IF \E i \in DOMAIN ns : ~ns[i].ok
        THEN ns[CHOOSE i \in DOMAIN ns :
                   ~ns[i].ok /\ \A k \in 1..(i - 1) : ns[k].ok]
      ELSE Built(
             extra
             @@ ("strategy" :> strategy)
             @@ Entry(PyTruthy(url), "url", n.url)
             @@ Entry(PyTruthy(urls), "urls",
                      [i \in DOMAIN ns |-> ns[i].url])
             @@ Entry(DOMAIN crawler_config # {}, "crawler_config",
                      crawler_config)
             @@ Entry(DOMAIN browser_cfg # {}, "browser_config",
                      browser_cfg)) :
      n \in {IF PyTruthy(url) THEN normalize_url(url.chars)
                              ELSE Normalized(<<>>, FALSE)},
      ns \in {IF PyTruthy(urls) THEN NormalizedList(urls.items) ELSE <<>>},
      crawler_config \in {sanitize_crawler_config(config)},
      browser_cfg \in {sanitize_browser_config(browser_config, strategy)} })

\* a validation that lets a call with both url and source_job through
deep_crawl_source_AcceptsBoth(url, source_job) ==
    IF ~PyTruthy(url) /\ ~PyTruthy(source_job)
      THEN ValueError("Must provide either 'url' or 'source_job'")
    ELSE Built(Entry(PyTruthy(url), "url", url.chars)
               @@ Entry(PyTruthy(source_job), "source_job_id",
                        source_job.chars))

\* deep_crawl, lines 537-552: the two checks, and what the body says of the
\* source of the crawl
deep_crawl_source(url, source_job) ==
    IF ~PyTruthy(url) /\ ~PyTruthy(source_job)
      THEN ValueError("Must provide either 'url' or 'source_job'")
    ELSE IF PyTruthy(url) /\ PyTruthy(source_job)
      THEN ValueError("Provide either 'url' or 'source_job', not both")
    ELSE Built(Entry(PyTruthy(url), "url", url.chars)
               @@ Entry(PyTruthy(source_job), "source_job_id",
                        source_job.chars))

\* bool(filters) for an Optional[Dict]
DictTruthy(d) == ~IsNone(d) /\ DOMAIN d # {}

\* deep_crawl, lines 559-566 of crawler.py: effective_filters
effective_filters(filters, include_patterns, exclude_patterns) ==
    Entry(PyTruthy(exclude_patterns), "exclude_patterns", exclude_patterns)
    @@ Entry(PyTruthy(include_patterns), "include_patterns", include_patterns)
    @@ (IF DictTruthy(filters) THEN filters ELSE EmptyMap)

\* deep_crawl, lines 537-606: the checks and the body, with max_depth,
\* max_urls, priority, source and pattern at their defaults and without
\* scorers, query, proxy, bypass_cache, webhook_url
deep_crawl_body(url, source_job, strategy, scan_only, config, browser_config, crawl_strategy, filters, include_patterns, exclude_patterns, include_html) ==
    LET crawler_config == sanitize_crawler_config(config)
        effective == effective_filters(filters, include_patterns,
                                       exclude_patterns)
        browser_cfg == sanitize_browser_config(browser_config, crawl_strategy)
        source == deep_crawl_source(url, source_job)
    IN  IF ~source.ok
          THEN source
        ELSE Built(
               [strategy |-> strategy, crawl_strategy |-> crawl_strategy,
                priority |-> 5]
               @@ source.body
               @@ (IF strategy \in {"bfs", "dfs", "best_first"}
                     THEN [max_depth |-> 3, max_urls |-> 100]
                          @@ Entry(DOMAIN effective # {}, "filters",
                                   effective)
                          @@ Entry(scan_only, "scan_only", TRUE)
                          @@ Entry(include_html, "include_html", TRUE)
                     ELSE EmptyMap)
               @@ Entry(strategy = "map", "seeding_config",
                        [source |-> "sitemap", pattern |-> "*",
                         max_urls |-> 100])
               @@ Entry(DOMAIN crawler_config # {}, "crawler_config",
                        crawler_config)
               @@ Entry(DOMAIN browser_cfg # {}, "browser_config",
                        browser_cfg))

\* generate_schema, lines 812-829: the checks and the body, with schema_type
\* at its default and without query, target_json_example, llm_config
generate_schema_body(html, urls) ==
    IF ~PyTruthy(html) /\ ~PyTruthy(urls)
      THEN ValueError("Either 'html' or 'urls' must be provided")
    ELSE IF PyTruthy(html) /\ PyTruthy(urls)
      THEN ValueError("Provide either 'html' or 'urls', not both")
    ELSE IF ~IsNone(urls) /\ Len(urls.items) > 3
      THEN ValueError("Maximum 3 URLs allowed")
    ELSE Built(
           [schema_type |-> "CSS"]
           @@ Entry(~IsNone(html), "html", html)
           @@ Entry(~IsNone(urls), "urls",
                    IF IsNone(urls) THEN <<>>
                    ELSE [i \in DOMAIN urls.items |-> urls.items[i].chars]))

\* --------------------------------------------------------- server replies
JobStatuses == {"pending", "processing", "completed", "partial", "failed",
                "cancelled"}
ScanStatuses == JobStatuses \cup {"no_urls"}

\* None where a str is expected
NoId == "<None>"
JOB_ID == "job_1"
SCAN_ID == "scan_1"

\* JSON objects the server returns from GET /v1/crawl/jobs/{id}
JobData == [form : {"json"}, job_id : {JOB_ID}, status : JobStatuses]
\* JSON objects the server returns from the deep-crawl endpoints
ScanData == [form : {"json"}, job_id : {SCAN_ID}, status : ScanStatuses,
             discovered_urls : 0..MaxDiscovered, crawl_job_id : {NoId, JOB_ID}]
\* JSON objects the server returns from POST /v1/crawl
CrawlData == [form : {"json"}, success : BOOLEAN]
\* JSON objects the server returns from POST .../cancel
CancelData == [form : {"json"}, discovered_urls : 0..MaxDiscovered]
\* JSON objects the server returns from POST /v1/schema/generate
SchemaData == [form : {"json"}, success : BOOLEAN]
\* the empty JSON object
EmptyDict == [form |-> "json"]
\* a body of no bytes, and a body that is not JSON
EmptyBody == [form |-> "empty"]
Malformed == [form |-> "malformed"]

SuccessCodes == {200}
ErrorCodes == {400, 401, 403, 404, 429, 500, 503, 504}

\* What the server sends for one HTTP attempt on a path:
\*   kind "response" with a status code and a body, or the attempt ends in
\*   httpx.TimeoutException ("timeout") or httpx.RequestError ("neterror").
\* A success body is empty, malformed JSON, or a JSON object; an error body
\* is a JSON object with a detail (string or not) or is not JSON at all.
BodiesFor(path) ==
    CASE path = "job" -> JobData
      [] path = "scan" -> ScanData
      [] path = "deep" -> ScanData
      [] path = "async" -> JobData
      [] path = "crawl" -> CrawlData
      [] path = "cancel" -> CancelData
      [] path = "schema" -> SchemaData
      [] OTHER -> {[form |-> "json", status |-> "ok"]}

\* The detail is looked at for 429 only: the other codes come with one body.
ErrorBodies(code) ==
    IF code = 429
      THEN { [form |-> "json", detail |-> d] :
               d \in DetailStrings \cup {NonString} }
           \cup {EmptyBody, Malformed}
      ELSE { [form |-> "json", detail |-> Str(<<"o", "o", "p", "s">>)] }

Responses(path) ==
    { [kind |-> "timeout"], [kind |-> "neterror"] }
    \cup { [kind |-> "response", status_code |-> c, body |-> b] :
             c \in SuccessCodes,
             b \in BodiesFor(path) \cup {EmptyBody, Malformed} }
    \cup UNION { { [kind |-> "response", status_code |-> c, body |-> b] :
                     b \in ErrorBodies(c) } : c \in ErrorCodes }

\* ------------------------------------------------------ arguments given
\* urls a caller may pass: bare and upper-case domains, canonical and
\* non-canonical http(s) urls, localhost and IPv4, other schemes, blanks
Urls ==
    { <<"a", ".", "i", "o">>, <<"A", ".", "i", "o">>, <<"h", "t", "t", "p", "s", ":", "/", "/", "a", ".", "i", "o">>, <<"H", "T", "T", "P", ":", "/", "/", "A", ".", "i", "o", ":", "8", "0", "/">>,
      <<"h", "t", "t", "p", "s", ":", "/", "/", "a", ".", "i", "o", ":", "4", "4", "3">>, <<"/", "/", "a", ".", "i", "o">>, <<"l", "o", "c", "a", "l", "h", "o", "s", "t", ":", "3">>, <<"1", ".", "2", ".", "3", ".", "4">>,
      <<"f", "t", "p", ":", "/", "/", "a", ".", "i", "o">>, <<"m", "a", "i", "l", "t", "o", ":", "x">>, <<"t", "e", "l", ":", "1">>, <<" ">>, <<>>, <<"a", ".", "i", "o", "/", "P", "#", "f">>, <<" ", "a", ".", "i", "o">> }
UrlArgs == {PyNone} \cup { Str(u) : u \in Urls }
GoodUrl == Str(<<"h", "t", "t", "p", "s", ":", "/", "/", "a", ".", "i", "o">>)

\* the urls that lists are made of
ListUrls == { <<"a", ".", "i", "o">>, <<"h", "t", "t", "p", "s", ":", "/", "/", "a", ".", "i", "o">>, <<"f", "t", "p", ":", "/", "/", "a", ".", "i", "o">>, <<" ">> }
\* None, the empty list, every list of one or two urls, and the lists that
\* repeat one url up to MaxUrlList times
UrlLists ==
    {PyNone, PyList(<<>>)}
    \cup { PyList(<<u>>) : u \in { Str(x) : x \in ListUrls } }
    \cup { PyList(<<u, v>>) : u \in { Str(x) : x \in ListUrls },
                              v \in { Str(x) : x \in ListUrls } }
    \cup { PyList([i \in 1..n |-> Str(<<"a", ".", "i", "o">>)]) : n \in 3..MaxUrlList }

\* html arguments of generate_schema: None, '', a page, a list of pages
HtmlArgs == { PyNone, Str(<<>>), Str(<<"<", "p", ">">>), PyList(<<>>),
              PyList(<<Str(<<"<", "p", ">">>)>>) }

\* source_job arguments of deep_crawl
SourceJobs == { PyNone, Str(<<>>), Str(<<"j", "o", "b", "_", "0">>) }

\* a value other than the default for each config field
CrawlerSamples ==
    [css_selector |-> "article", screenshot |-> "True",
     cache_mode |-> "bypass", session_id |-> "s1", bypass_cache |-> "True",
     no_cache_read |-> "True", no_cache_write |-> "True",
     disable_cache |-> "True"]
BrowserSamples ==
    [headless |-> "False", user_agent |-> "ua", chrome_channel |-> "beta",
     cdp_url |-> "ws", use_managed_browser |-> "True",
     browser_mode |-> "cdp", user_data_dir |-> "dir",
     create_isolated_context |-> "True", cdp_cleanup_on_close |-> "True",
     browser_context_id |-> "ctx", target_id |-> "tgt"]

\* the dicts with up to MaxConfigKeys keys of samples, each key with its
\* sample value or, for one key at a time, with None
DictsOf(samples) ==
    UNION { { [k \in K |-> IF k = n THEN NoneField ELSE samples[k]] :
                n \in K \cup {"-"} } :
            K \in { S \in SUBSET DOMAIN samples :
                      Cardinality(S) <= MaxConfigKeys } }

\* the instances of a dataclass that differ from the defaults in up to
\* MaxConfigKeys fields
InstancesOf(defaults, samples) ==
    { [k \in DOMAIN defaults |-> IF k \in K THEN samples[k] ELSE defaults[k]] :
        K \in { S \in SUBSET DOMAIN defaults :
                  Cardinality(S) <= MaxConfigKeys } }

CrawlerConfigs ==
    {NoConfig, OtherConfig}
    \cup { DictConfig(d) : d \in DictsOf(CrawlerSamples) }
    \cup { DumpedConfig(d) : d \in DictsOf(CrawlerSamples) }
    \cup { DataclassConfig(f) :
             f \in InstancesOf(CrawlerRunConfig_defaults, CrawlerSamples) }

BrowserConfigs ==
    {NoConfig, OtherConfig}
    \cup { DictConfig(d) : d \in DictsOf(BrowserSamples) }
    \cup { DataclassConfig(f) :
             f \in InstancesOf(BrowserConfig_defaults, BrowserSamples) }

\* what a crawl call is given: the url(s) vary with the configs absent, and
\* each config varies with a canonical url
CrawlGiven(urlField, urlValues, good) ==
    LET base == [url |-> PyNone, urls |-> PyNone, config |-> NoConfig,
                 browser_config |-> NoConfig, strategy |-> "browser"]
    IN  { [base EXCEPT ![urlField] = u] : u \in urlValues }
        \cup { [base EXCEPT ![urlField] = good, !.config = c] :
                 c \in CrawlerConfigs }
        \cup { [base EXCEPT ![urlField] = good, !.browser_config = c,
                            !.strategy = s] :
                 c \in BrowserConfigs, s \in {"browser", "http"} }

\* ------------------------------------------------------------------ state
VARIABLES
    environ,       \* plugin: what load_config and the backends find
    backend,       \* plugin: core._backend, None or a backend
    current_mode,  \* plugin: core._current_mode
    backends,      \* plugin: every backend object created
    tasks,         \* plugin: the tool calls of the host, one per task
    tool_calls,    \* plugin: tool calls made so far
    crawler,       \* the AsyncWebCrawler: how its construction went
    client,        \* HTTPClient._client: None or a reference to a client
    clients,       \* every httpx.AsyncClient created, open or closed
    max_retries,   \* HTTPClient._max_retries
    now,           \* time.time()
    api,           \* the public method being executed
    args,          \* its arguments
    pc,            \* where that method is
    wait_start,    \* when the method began to wait
    scan,          \* frame of _wait_scan_job: job_id, timeout, start_time
    scan_result,   \* the DeepCrawlResult of the last scan poll
    job,           \* frame of the regular loop of wait_job
    cur_job,       \* the CrawlJob of the last job poll
    polls,         \* sleeps taken by the loop in progress
    outcome,       \* what the public method returned or raised
    given,         \* the arguments the request body is built from
    http_pc,       \* where HTTPClient.request is
    http_path,     \* the endpoint of the request in progress
    http_json,     \* the json argument of the request in progress
    attempt,       \* loop variable of HTTPClient.request
    sent,          \* HTTP requests sent by the request() call in progress
    sleeps,        \* backoff sleeps of the request() call in progress
    last_resp,     \* what the last attempt got from the server
    http_out       \* what request() returned or raised

httpVars == <<http_pc, http_path, http_json, attempt, sent, sleeps,
              last_resp, http_out, client, clients>>
pollVars == <<api, args, pc, wait_start, scan, scan_result, job, cur_job,
              polls, outcome, given>>
pluginVars == <<environ, backend, current_mode, backends, tasks, tool_calls>>
sdkVars == <<crawler, client, clients, max_retries, now, pollVars,
             http_pc, http_path, http_json, attempt, sent, sleeps, last_resp,
             http_out>>
vars == <<pluginVars, crawler, client, clients, max_retries, now, api, args, pc, wait_start, scan, scan_result,
          job, cur_job, polls, outcome, given, http_pc, http_path,
          http_json, attempt, sent, sleeps, last_resp, http_out>>

NoOut == [kind |-> "none"]
NoResp == [kind |-> "none"]
NoFrame == [active |-> FALSE]
NoResult == [present |-> FALSE]
NoGiven == [present |-> FALSE]
\* json=None
NoJson == [present |-> FALSE]
Json(b) == [present |-> TRUE, body |-> b]
Return(v) == [kind |-> "return", value |-> v]
Raise(t, code, msg) ==
    [kind |-> "raise", type |-> t, status_code |-> code, message |-> msg]

\* a backoff that doubles the attempt number instead of raising 2 to it
Pow2_Doubling(n) == 2 * n

\* 2 ** attempt
Pow2(n) == 2 ^ n

\* bool(timeout) for an Optional[float]
Truthy(t) == t # None /\ t # 0

\* bool(s) for an Optional[str]
TruthyStr(s) == s # NoId /\ s # ""

\* max(0, x)
Max0(x) == IF x > 0 THEN x ELSE 0

\* dict.get(key, default)
Get(d, key, default) == IF key \in DOMAIN d THEN d[key] ELSE default

\* --------------------------------------------------- HTTPClient.request
\* lines 130-136: the detail of an error response
ParseDetail(resp) ==
    IF resp.body.form = "json"
      THEN resp.body.detail
      ELSE IF resp.body.form = "malformed"
        THEN Str(<<"o", "o", "p", "s">>)
        ELSE Str(<<"H", "T", "T", "P">>)

\* lines 140-164 for a response with status >= 400; "retry" is sleep+continue
MapStatus(resp, att, maxr) ==
    LET code == resp.status_code
        detail == ParseDetail(resp)
    IN  IF code = 401 THEN Raise("AuthenticationError", 401, "detail")
        ELSE IF code = 404 THEN Raise("NotFoundError", 404, "detail")
        ELSE IF code = 429 THEN
            IF ~IsStr(detail)
              THEN Raise("AttributeError", None, "no attribute lower")
            ELSE IF Contains(Lower(detail.chars), RATE_LIMIT)
                 THEN Raise("RateLimitError", 429, "detail")
                 ELSE Raise("QuotaExceededError", 429, "detail")
        ELSE IF code = 400 THEN Raise("ValidationError", 400, "detail")
        ELSE IF code = 504 THEN Raise("TimeoutError", 504, "detail")
        ELSE IF code >= 500 THEN
            IF att < maxr - 1 THEN [kind |-> "retry"]
            ELSE Raise("ServerError", code, "detail")
        ELSE Raise("CloudError", code, "detail")

\* a loop that gives up at the first client timeout instead of trying again
HandleAttempt_TimeoutNotRetried(resp, att, maxr) ==
    IF resp.kind = "timeout" THEN
        Raise("TimeoutError", None, "Request timed out")
    ELSE IF resp.kind = "neterror" THEN
        IF att < maxr - 1 THEN [kind |-> "retry"]
        ELSE Raise("CloudError", None, "Request failed")
    ELSE IF resp.status_code < 400 THEN
        IF resp.body.form = "empty" THEN Return(EmptyDict)
        ELSE IF resp.body.form = "malformed"
          THEN Raise("JSONDecodeError", None, "Expecting value")
        ELSE Return(resp.body)
    ELSE MapStatus(resp, att, maxr)

\* lines 115-176: one pass through the body of the for loop
HandleAttempt(resp, att, maxr) ==
    IF resp.kind = "timeout" THEN
        IF att < maxr - 1 THEN [kind |-> "retry"]
        ELSE Raise("TimeoutError", None, "Request timed out")
    ELSE IF resp.kind = "neterror" THEN
        IF att < maxr - 1 THEN [kind |-> "retry"]
        ELSE Raise("CloudError", None, "Request failed")
    ELSE IF resp.status_code < 400 THEN
        IF resp.body.form = "empty" THEN Return(EmptyDict)
        ELSE IF resp.body.form = "malformed"
          THEN Raise("JSONDecodeError", None, "Expecting value")
        ELSE Return(resp.body)
    ELSE MapStatus(resp, att, maxr)

\* self._client = None
NoClient == 0

\* a _get_client that makes a new client for every request
get_client_AlwaysNew ==
    /\ clients' = Append(clients, "open")
    /\ client' = Len(clients) + 1

\* _get_client, lines 67-79: the client is made when there is none, or when
\* the one there is has been closed
get_client ==
    IF client = NoClient \/ clients[client] = "closed"
      THEN /\ clients' = Append(clients, "open")
           /\ client' = Len(clients) + 1
      ELSE UNCHANGED <<client, clients>>

\* close, lines 180-184
HTTPClient_close ==
    IF client # NoClient /\ clients[client] # "closed"
      THEN /\ clients' = [clients EXCEPT ![client] = "closed"]
           /\ client' = NoClient
      ELSE UNCHANGED <<client, clients>>

\* request() is entered with a json argument: line 112 and the state of a
\* fresh call
HttpRequest(path, json) ==
    /\ get_client
    /\ http_pc' = "send"
    /\ http_path' = path
    /\ http_json' = json
    /\ attempt' = 0
    /\ sent' = 0
    /\ sleeps' = <<>>
    /\ last_resp' = NoResp
    /\ http_out' = NoOut

\* request() is entered without a json argument
HttpStart(path) == HttpRequest(path, NoJson)

\* request() has returned or raised; e is how it ended: what it returns or
\* raises (out), the last response (resp) and the requests it sent (sent);
\* its json argument is released
HttpEnd(e) ==
    /\ http_pc' = "done"
    /\ http_json' = NoJson
    /\ http_out' = e.out
    /\ last_resp' = e.resp
    /\ sent' = e.sent
    /\ UNCHANGED <<http_path, attempt, sleeps, client, clients>>

\* ------------------------------------------------------------------ models
\* CrawlJob.from_dict
CrawlJob_from_dict(data) ==
    [type |-> "CrawlJob",
     job_id |-> Get(data, "job_id", ""),
     status |-> Get(data, "status", "unknown"),
     progress |-> [total |-> 0, completed |-> 0, failed |-> 0]]

\* a terminal test that knows only the statuses of a scan job
CrawlJob_is_complete_ScanOnly(j) ==
    j.status \in {"completed", "failed"}

\* CrawlJob.is_complete
CrawlJob_is_complete(j) ==
    j.status \in {"completed", "partial", "failed", "cancelled"}

\* DeepCrawlResult.from_dict
DeepCrawlResult_from_dict(data) ==
    [type |-> "DeepCrawlResult",
     job_id |-> Get(data, "job_id", ""),
     status |-> Get(data, "status", ""),
     discovered_count |-> Get(data, "discovered_urls", 0),
     crawl_job_id |-> Get(data, "crawl_job_id", NoId)]

\* CrawlResult.from_dict
CrawlResult_from_dict(data) ==
    [type |-> "CrawlResult", success |-> Get(data, "success", FALSE)]

\* GeneratedSchema.from_dict
GeneratedSchema_from_dict(data) ==
    [type |-> "GeneratedSchema", success |-> Get(data, "success", FALSE)]

\* the fields of the dataclass DeepCrawlResult that have no default
DeepCrawlResult_required ==
    {"job_id", "status", "strategy", "discovered_count", "queued_urls",
     "created_at"}

\* DeepCrawlResult(**kw): the dataclass __init__ raises TypeError when a
\* field without a default is not given
DeepCrawlResult_init(kw) ==
    IF DeepCrawlResult_required \subseteq DOMAIN kw
      THEN Return([type |-> "DeepCrawlResult",
                   job_id |-> kw.job_id,
                   status |-> kw.status,
                   discovered_count |-> kw.discovered_count,
                   crawl_job_id |-> Get(kw, "crawl_job_id", NoId)])
      ELSE Raise("TypeError", None, "missing required positional arguments")

\* DeepCrawlResult.has_urls
DeepCrawlResult_has_urls(r) ==
    r.status # "no_urls" /\ r.discovered_count > 0

\* a finished test that takes a scan still being processed for finished
DeepCrawlResult_is_complete_Early(r) ==
    r.status \in {"completed", "failed", "processing"}

\* DeepCrawlResult.is_complete
DeepCrawlResult_is_complete(r) ==
    r.status \in {"completed", "failed"}

\* the CrawlJob that wait_job builds from a scan without a crawl job,
\* lines 352-363
ScanOnlyJob(job_id, r) ==
    [type |-> "CrawlJob",
     job_id |-> job_id,
     status |-> r.status,
     progress |-> [total |-> r.discovered_count,
                   completed |-> r.discovered_count,
                   failed |-> 0]]

\* job_id.startswith("scan_")
IsScanId(id) == id = SCAN_ID

\* ----------------------------------------------------------------- crawler
\* A coroutine runs without interruption from one await to the next: when
\* request() ends, its caller goes on in the same step up to its next
\* request() or sleep.

Timeouts == {None} \cup 1..MaxTimeout
PollIntervals == 1..MaxPollInterval

\* the public method ends, returning or raising
Finish(out) ==
    /\ pc' = "done"
    /\ outcome' = out

\* _wait_scan_job is entered and sends its first GET
EnterScanLoop(jid, t) ==
    /\ scan' = [active |-> TRUE, job_id |-> jid, timeout |-> t,
                start_time |-> now]
    /\ polls' = 0
    /\ pc' = "scan_get"
    /\ HttpStart("scan")

\* _wait_scan_job has returned; the regular loop of wait_job is entered
\* and sends its first GET
ChainJobLoop(jid, t) ==
    /\ scan' = NoFrame
    /\ job' = [active |-> TRUE, job_id |-> jid, timeout |-> t,
               start_time |-> now]
    /\ polls' = 0
    /\ pc' = "job_get"
    /\ HttpStart("job")

\* the regular loop of wait_job is entered and sends its first GET
EnterJobLoop(jid, t) ==
    /\ job' = [active |-> TRUE, job_id |-> jid, timeout |-> t,
               start_time |-> now]
    /\ polls' = 0
    /\ pc' = "job_get"
    /\ HttpStart("job")

\* a timeout test that fires as soon as the timeout is reached
TimedOut_AtLimit(timeout, start_time) ==
    Truthy(timeout) /\ (now - start_time) >= timeout

\* the timeout test of both poll loops, lines 372 and 653
TimedOut(timeout, start_time) ==
    Truthy(timeout) /\ (now - start_time) > timeout

\* wait_job's remaining_timeout, lines 340-343
RemainingTimeout(timeout, start_time) ==
    IF Truthy(timeout)
      THEN Max0(timeout - (now - start_time))
      ELSE None

\* get_job, lines 296-297: the GET has ended
GetJobDone(e) ==
    /\ HttpEnd(e)
    /\ IF e.out.kind = "raise"
         THEN Finish(e.out) /\ cur_job' = cur_job
         ELSE /\ cur_job' = CrawlJob_from_dict(e.out.value)
              /\ Finish(Return(cur_job'))
    /\ UNCHANGED <<pluginVars, crawler, max_retries, now, api, args, wait_start, scan,
                   scan_result, job, polls, given>>

\* wait_job, lines 367-376: the GET has ended
JobGetDone(e) ==
    /\ HttpEnd(e)
    /\ IF e.out.kind = "raise"
         THEN Finish(e.out) /\ cur_job' = cur_job
         ELSE LET j == CrawlJob_from_dict(e.out.value)
              IN  /\ cur_job' = j
                  /\ IF CrawlJob_is_complete(j)
                       THEN Finish(Return(j))
                       ELSE IF TimedOut(job.timeout, job.start_time)
                         THEN Finish(Raise("TimeoutError", None,
                                           "Timeout waiting for job"))
                         ELSE /\ pc' = "job_sleep"
                              /\ outcome' = outcome
    /\ UNCHANGED <<pluginVars, crawler, max_retries, now, api, args, wait_start, scan,
                   scan_result, job, polls, given>>

\* what the caller of _wait_scan_job does with its result:
\* wait_job lines 338-363, deep_crawl lines 621-635
AfterScan(r, e) ==
    IF api = "wait_job" THEN
        IF TruthyStr(r.crawl_job_id)
          THEN /\ ChainJobLoop(r.crawl_job_id,
                               RemainingTimeout(args.timeout, wait_start))
               /\ outcome' = outcome
          ELSE /\ Finish(Return(ScanOnlyJob(args.job_id, r)))
               /\ HttpEnd(e)
               /\ UNCHANGED <<scan, job, polls>>
    ELSE
        IF args.scan_only \/ ~DeepCrawlResult_has_urls(r)
             \/ ~TruthyStr(r.crawl_job_id)
          THEN /\ Finish(Return(r))
               /\ HttpEnd(e)
               /\ UNCHANGED <<scan, job, polls>>
          ELSE /\ ChainJobLoop(r.crawl_job_id, args.timeout)
               /\ outcome' = outcome

\* _wait_scan_job, lines 647-657: the GET has ended
ScanGetDone(e) ==
    /\ IF e.out.kind = "raise"
         THEN /\ Finish(e.out)
              /\ HttpEnd(e)
              /\ UNCHANGED <<scan_result, scan, job, polls>>
         ELSE LET r == DeepCrawlResult_from_dict(e.out.value)
              IN  /\ scan_result' = r
                  /\ IF DeepCrawlResult_is_complete(r)
                       THEN AfterScan(r, e)
                       ELSE /\ HttpEnd(e)
                            /\ UNCHANGED <<scan, job, polls>>
                            /\ IF TimedOut(scan.timeout, scan.start_time)
                                 THEN Finish(Raise("TimeoutError", None,
                                         "Timeout waiting for scan job"))
                                 ELSE /\ pc' = "scan_sleep"
                                      /\ outcome' = outcome
    /\ UNCHANGED <<pluginVars, crawler, max_retries, now, api, args, wait_start, cur_job, given>>

\* deep_crawl, lines 608-619: the POST has ended; with wait=True only the
\* job_id of its result is used
DeepPostDone(e) ==
    /\ IF e.out.kind = "raise"
         THEN /\ Finish(e.out)
              /\ HttpEnd(e)
              /\ UNCHANGED <<scan_result, scan, polls, wait_start>>
         ELSE LET r == DeepCrawlResult_from_dict(e.out.value)
              IN  IF ~args.wait
                    THEN /\ scan_result' = r
                         /\ Finish(Return(r))
                         /\ HttpEnd(e)
                         /\ UNCHANGED <<scan, polls, wait_start>>
                    ELSE /\ scan_result' = scan_result
                         /\ wait_start' = now
                         /\ EnterScanLoop(r.job_id, args.timeout)
                         /\ outcome' = outcome
    /\ given' = NoGiven
    /\ UNCHANGED <<pluginVars, crawler, max_retries, now, api, args, job, cur_job>>

\* run, lines 128-129: the POST has ended
RunPostDone(e) ==
    /\ HttpEnd(e)
    /\ IF e.out.kind = "raise"
         THEN Finish(e.out)
         ELSE Finish(Return(CrawlResult_from_dict(e.out.value)))
    /\ given' = NoGiven
    /\ UNCHANGED <<pluginVars, crawler, max_retries, now, api, args, wait_start, scan,
                   scan_result, job, cur_job, polls>>

\* _run_async, lines 264-277: the POST has ended; with wait=True only the
\* id of the job is used
RunManyPostDone(e) ==
    /\ IF e.out.kind = "raise"
         THEN /\ Finish(e.out)
              /\ HttpEnd(e)
              /\ UNCHANGED <<job, polls, wait_start>>
         ELSE LET j == CrawlJob_from_dict(e.out.value)
              IN  IF ~args.wait
                    THEN /\ Finish(Return(j))
                         /\ HttpEnd(e)
                         /\ UNCHANGED <<job, polls, wait_start>>
                    ELSE /\ wait_start' = now
                         /\ EnterJobLoop(j.job_id, args.timeout)
                         /\ outcome' = outcome
    /\ given' = NoGiven
    /\ UNCHANGED <<pluginVars, crawler, max_retries, now, api, args, scan, scan_result, cur_job>>

\* generate_schema, lines 831-832: the POST has ended
SchemaPostDone(e) ==
    /\ HttpEnd(e)
    /\ IF e.out.kind = "raise"
         THEN Finish(e.out)
         ELSE Finish(Return(GeneratedSchema_from_dict(e.out.value)))
    /\ given' = NoGiven
    /\ UNCHANGED <<pluginVars, crawler, max_retries, now, api, args, wait_start, scan,
                   scan_result, job, cur_job, polls>>

\* cancel_deep_crawl, lines 689-695: the POST has ended
CancelPostDone(e) ==
    /\ HttpEnd(e)
    /\ IF e.out.kind = "raise"
         THEN Finish(e.out)
         ELSE Finish(DeepCrawlResult_init(
                [job_id |-> args.job_id,
                 status |-> "cancelled",
                 strategy |-> Get(e.out.value, "strategy", NoneField),
                 discovered_count |-> Get(e.out.value, "discovered_urls", 0)]))
    /\ UNCHANGED <<pluginVars, crawler, max_retries, now, api, args, wait_start, scan,
                   scan_result, job, cur_job, polls, given>>

\* the caller of request() goes on
Resume(e) ==
    CASE pc = "get_job" -> GetJobDone(e)
      [] pc = "job_get" -> JobGetDone(e)
      [] pc = "scan_get" -> ScanGetDone(e)
      [] pc = "dc_post" -> DeepPostDone(e)
      [] pc = "run_post" -> RunPostDone(e)
      [] pc = "rm_post" -> RunManyPostDone(e)
      [] pc = "schema_post" -> SchemaPostDone(e)
      [] pc = "cancel_post" -> CancelPostDone(e)

\* ------------------------------------------- HTTPClient.request, the loop
\* one attempt: client.request(...) and the handling of its outcome
HttpAttempt ==
    /\ http_pc = "send"
    /\ attempt < max_retries
    /\ \E resp \in Responses(http_path) :
         LET h == HandleAttempt(resp, attempt, max_retries)
         IN  IF h.kind = "retry"
               THEN /\ http_pc' = "backoff"
                    /\ sent' = sent + 1
                    /\ last_resp' = resp
                    /\ UNCHANGED <<pluginVars, crawler, max_retries, now, http_path, http_json,
                                   attempt, sleeps, http_out, client,
                                   clients>>
                    /\ UNCHANGED pollVars
               ELSE Resume([out |-> h, resp |-> resp, sent |-> sent + 1])

\* await asyncio.sleep(2 ** attempt); continue
HttpBackoff ==
    /\ http_pc = "backoff"
    /\ now' = now + Pow2(attempt)
    /\ sleeps' = Append(sleeps, Pow2(attempt))
    /\ attempt' = attempt + 1
    /\ http_pc' = "send"
    /\ last_resp' = NoResp
    /\ UNCHANGED <<pluginVars, crawler, max_retries, http_path, http_json, sent, http_out,
                   client, clients>>
    /\ UNCHANGED pollVars

\* line 178: the for loop ran out without returning or raising
HttpExhausted ==
    /\ http_pc = "send"
    /\ attempt >= max_retries
    /\ Resume([out |-> Raise("CloudError", None, "Max retries exceeded"),
               resp |-> last_resp, sent |-> sent])

\* ------------------------------------------------------------ public calls
\* get_job: GET /v1/crawl/jobs/{id}
CallGetJob ==
    /\ pc = "idle"
    /\ api' = "get_job"
    /\ args' = [job_id |-> JOB_ID, poll_interval |-> None, timeout |-> None,
                wait |-> FALSE, scan_only |-> FALSE]
    /\ pc' = "get_job"
    /\ HttpStart("job")
    /\ UNCHANGED <<pluginVars, crawler, max_retries, now, wait_start, scan, scan_result, job,
                   cur_job, polls, outcome, given>>

\* wait_job, lines 327-336 and 365-367: up to the first GET
CallWaitJob ==
    /\ pc = "idle"
    /\ \E jid \in {JOB_ID, SCAN_ID}, pi \in PollIntervals, t \in Timeouts :
         /\ api' = "wait_job"
         /\ args' = [job_id |-> jid, poll_interval |-> pi, timeout |-> t,
                     wait |-> TRUE, scan_only |-> FALSE]
         /\ wait_start' = now
         /\ IF IsScanId(jid)
              THEN EnterScanLoop(jid, t) /\ job' = job
              ELSE EnterJobLoop(jid, t) /\ scan' = scan
    /\ UNCHANGED <<pluginVars, crawler, max_retries, now, scan_result, cur_job, outcome, given>>

\* wait_job, line 378 and the next GET; the job of the last poll is not
\* read again
JobSleep ==
    /\ pc = "job_sleep"
    /\ Truthy(job.timeout) \/ polls < MaxPolls
    /\ now' = now + args.poll_interval
    /\ polls' = polls + 1
    /\ pc' = "job_get"
    /\ cur_job' = NoResult
    /\ HttpStart("job")
    /\ UNCHANGED <<pluginVars, crawler, max_retries, api, args, wait_start, scan, scan_result,
                   job, outcome, given>>

\* _wait_scan_job, line 659 and the next GET; the result of the last poll
\* is not read again
ScanSleep ==
    /\ pc = "scan_sleep"
    /\ Truthy(scan.timeout) \/ polls < MaxPolls
    /\ now' = now + args.poll_interval
    /\ polls' = polls + 1
    /\ pc' = "scan_get"
    /\ scan_result' = NoResult
    /\ HttpStart("scan")
    /\ UNCHANGED <<pluginVars, crawler, max_retries, api, args, wait_start, scan, job, cur_job,
                   outcome, given>>

\* the arguments left at their defaults
NoArgs == [job_id |-> NoId, poll_interval |-> None, timeout |-> None,
           wait |-> FALSE, scan_only |-> FALSE]

\* a public method builds its body b and posts it, or raises the ValueError
\* that building the body raised, without calling request()
PostOrRaise(b, path, at) ==
    IF b.ok
      THEN /\ pc' = at
           /\ outcome' = outcome
           /\ HttpRequest(path, Json(b.body))
      ELSE /\ Finish(Raise("ValueError", None, b.error))
           /\ UNCHANGED httpVars

\* a list of patterns, and a filters dict
SomePatterns == PyList(<<"docs">>)
SomeFilters == [allowed_domains |-> "a.io"]

\* deep_crawl called with a canonical url and everything else at its default
DeepDefaults ==
    [url |-> GoodUrl, source_job |-> PyNone, strategy |-> "bfs",
     crawl_strategy |-> "auto", config |-> NoConfig,
     browser_config |-> NoConfig, filters |-> PyNone,
     include_patterns |-> PyNone, exclude_patterns |-> PyNone,
     include_html |-> FALSE]

\* what deep_crawl is given: url, source_job and strategy vary with the
\* rest absent, and each config and each discovery option varies with a
\* canonical url
DeepGiven ==
    { [DeepDefaults EXCEPT !.url = u, !.source_job = sj, !.strategy = s] :
        u \in UrlArgs, sj \in SourceJobs, s \in {"bfs", "map"} }
    \cup { [DeepDefaults EXCEPT !.config = c] : c \in CrawlerConfigs }
    \cup { [DeepDefaults EXCEPT !.browser_config = c, !.crawl_strategy = s] :
             c \in BrowserConfigs, s \in {"auto", "http"} }
    \cup { [DeepDefaults EXCEPT !.strategy = s, !.filters = f,
                                !.include_html = h] :
             s \in {"bfs", "map"}, f \in {PyNone, EmptyMap, SomeFilters},
             h \in BOOLEAN }
    \cup { [DeepDefaults EXCEPT !.strategy = s, !.filters = f,
                                !.include_patterns = i,
                                !.exclude_patterns = e] :
             s \in {"bfs", "map"}, f \in {PyNone, SomeFilters},
             i \in {PyNone, PyList(<<>>), SomePatterns},
             e \in {PyNone, SomePatterns} }

\* how deep_crawl is called: every way of waiting with a canonical url, and
\* everything it may be given without waiting
DeepCalls ==
    { [g |-> [DeepDefaults EXCEPT !.strategy = s],
       a |-> [NoArgs EXCEPT !.wait = TRUE, !.scan_only = so,
                            !.poll_interval = pi, !.timeout = t]] :
        s \in {"bfs", "map"}, so \in BOOLEAN, pi \in PollIntervals,
        t \in Timeouts }
    \cup { [g |-> g, a |-> [NoArgs EXCEPT !.scan_only = so]] :
             g \in DeepGiven, so \in BOOLEAN }

\* deep_crawl, lines 537-608: up to the POST
CallDeepCrawl ==
    /\ pc = "idle"
    /\ \E c \in DeepCalls :
         /\ api' = "deep_crawl"
         /\ args' = c.a
         /\ given' = c.g
         /\ PostOrRaise(deep_crawl_body(c.g.url, c.g.source_job, c.g.strategy,
                                        c.a.scan_only, c.g.config,
                                        c.g.browser_config,
                                        c.g.crawl_strategy, c.g.filters,
                                        c.g.include_patterns,
                                        c.g.exclude_patterns,
                                        c.g.include_html),
                        "deep", "dc_post")
    /\ UNCHANGED <<pluginVars, crawler, max_retries, now, wait_start, scan, scan_result, job,
                   cur_job, polls>>

\* run, lines 118-128: up to the POST
CallRun ==
    /\ pc = "idle"
    /\ \E g \in CrawlGiven("url", UrlArgs \ {PyNone}, GoodUrl) :
         /\ api' = "run"
         /\ args' = NoArgs
         /\ given' = g
         /\ PostOrRaise(build_crawl_request(g.url, PyNone, g.config,
                                            g.browser_config, g.strategy,
                                            EmptyMap),
                        "crawl", "run_post")
    /\ UNCHANGED <<pluginVars, crawler, max_retries, now, wait_start, scan, scan_result, job,
                   cur_job, polls>>

\* the urls of a run_many call that waits
WaitedUrls == <<GoodUrl, GoodUrl>>

\* how run_many is called: every way of waiting with two canonical urls,
\* and everything it may be given without waiting
RunManyCalls ==
    { [g |-> [url |-> PyNone, urls |-> PyList(WaitedUrls),
              config |-> NoConfig, browser_config |-> NoConfig,
              strategy |-> "browser"],
       a |-> [NoArgs EXCEPT !.wait = TRUE, !.poll_interval = pi,
                            !.timeout = t]] :
        pi \in PollIntervals, t \in Timeouts }
    \cup { [g |-> g, a |-> NoArgs] :
             g \in CrawlGiven("urls", UrlLists \ {PyNone},
                              PyList(<<GoodUrl>>)) }

\* run_many and _run_async, lines 250-264: up to the POST; priority is
\* passed through at its default and webhook_url is left out
CallRunMany ==
    /\ pc = "idle"
    /\ \E c \in RunManyCalls :
         /\ api' = "run_many"
         /\ args' = c.a
         /\ given' = c.g
         /\ PostOrRaise(build_crawl_request(PyNone, c.g.urls, c.g.config,
                                            c.g.browser_config, c.g.strategy,
                                            [priority |-> 5]),
                        "async", "rm_post")
    /\ UNCHANGED <<pluginVars, crawler, max_retries, now, wait_start, scan, scan_result, job,
                   cur_job, polls>>

\* generate_schema, lines 812-831: up to the POST
CallGenerateSchema ==
    /\ pc = "idle"
    /\ \E h \in HtmlArgs, us \in UrlLists :
         /\ api' = "generate_schema"
         /\ args' = NoArgs
         /\ given' = [html |-> h, urls |-> us]
         /\ PostOrRaise(generate_schema_body(h, us), "schema", "schema_post")
    /\ UNCHANGED <<pluginVars, crawler, max_retries, now, wait_start, scan, scan_result, job,
                   cur_job, polls>>

\* cancel_deep_crawl, line 689: up to the POST
CallCancelDeepCrawl ==
    /\ pc = "idle"
    /\ api' = "cancel_deep_crawl"
    /\ args' = [NoArgs EXCEPT !.job_id = SCAN_ID]
    /\ pc' = "cancel_post"
    /\ HttpStart("cancel")
    /\ UNCHANGED <<pluginVars, crawler, max_retries, now, wait_start, scan, scan_result, job,
                   cur_job, polls, outcome, given>>

\* ------------------------------------------------- plugin: claude/core.py
\* _backend = None, _current_mode = None
NoBackend == 0
NoMode == "<None>"

\* the seven tool functions
Tools == {"crawl", "extract", "map_urls", "screenshot", "schema",
          "profile_list", "profile_create"}
Tasks == 1..MaxTasks
\* the tools a task calls: every tool for the first task, crawl for the
\* others
ToolsOf(t) == IF t = 1 THEN Tools ELSE {"crawl"}

\* an exception object: its class and str(e)
Exc(class, message) == [class |-> class, message |-> message]
\* BackendError(message), backends/__init__.py lines 9-15
BackendError(message) == Exc("BackendError", message)
\* the classes that derive from Exception
ExceptionClasses == {"Exception", "BackendError", "ValueError",
                     "AttributeError", "RuntimeError"}

\* a handler without the second except clause
tool_except_OnlyBackendError(e) ==
    IF e.class = "BackendError"
      THEN Return([success |-> FALSE, error |-> e.message])
      ELSE Raise(e.class, None, e.message)

\* the two except clauses of every tool function, e.g. lines 76-79
tool_except(e) ==
    IF e.class = "BackendError"
      THEN Return([success |-> FALSE, error |-> e.message])
    ELSE IF e.class \in ExceptionClasses
      THEN Return([success |-> FALSE, error |-> e.message])
    ELSE Raise(e.class, None, e.message)

\* return {"success": True, "data": data}
tool_return(data) == Return([success |-> TRUE, data |-> data])

\* load_config, config.py lines 26-51: the mode, or the AttributeError of a
\* config file whose JSON is not an object
load_config ==
    IF environ.file = "list"
      THEN [ok |-> FALSE,
            exc |-> Exc("AttributeError",
                        "'list' object has no attribute 'items'")]
      ELSE [ok |-> TRUE, mode |-> environ.mode]

\* get_backend, backends/__init__.py lines 41-48, and the two __init__:
\* a backend without a crawler
get_backend(mode) ==
    [mode |-> mode, crawler |-> FALSE, state |-> "created", used |-> FALSE]

\* CloudBackend.startup, cloud.py lines 20-31: it never suspends
CloudBackend_startup(b) ==
    IF environ.key = "none"
      THEN [b |-> [b EXCEPT !.state = "failed"],
            exc |-> BackendError("API key required")]
    ELSE IF environ.key = "invalid"
      THEN [b |-> [b EXCEPT !.state = "failed"],
            exc |-> Exc("ValueError", "Invalid API key format")]
    ELSE [b |-> [b EXCEPT !.state = "started", !.crawler = TRUE]]

\* LocalBackend.startup, local.py lines 32-41, up to the await of
\* __aenter__: the crawler is assigned before it is entered
LocalBackend_startup(b) ==
    IF ~environ.oss
      THEN [b |-> [b EXCEPT !.state = "failed"],
            exc |-> BackendError("crawl4ai is not installed")]
      ELSE [b |-> [b EXCEPT !.state = "starting", !.crawler = TRUE]]

\* the backend methods that begin with _ensure_crawler()
NeedsCrawler(mode, tool) ==
    IF mode = "cloud"
      THEN tool \notin {"profile_list", "profile_create"}
      ELSE tool \in {"crawl", "extract", "map_urls", "screenshot"}

\* the backend methods that return without awaiting anything: the profile
\* methods of CloudBackend, cloud.py lines 333-344
ReturnsAtOnce(mode, tool) ==
    mode = "cloud" /\ tool \in {"profile_list", "profile_create"}

\* how an awaited backend method ends: cloud.py and local.py turn every
\* Exception into a BackendError
CallOutcomes ==
    { tool_return("data"), tool_except(BackendError("call failed")) }

\* a task that is not in a tool function
IdleTask ==
    [pc |-> "idle", tool |-> "none", mode |-> NoMode, backend |-> NoBackend,
     result |-> NoOut]

\* the task has its result
Ended(task, result) == [task EXCEPT !.pc = "done", !.result = result]

\* data = await backend.<tool>(...), up to the first suspension, on the
\* backend b that _get_backend returned; bs are the backends as they are now
BeginCall(task, b, bs) ==
    IF b = NoBackend
      THEN [task |-> Ended(task, tool_except(Exc("AttributeError",
                        "'NoneType' object has no attribute"))),
            backends |-> bs]
    ELSE IF NeedsCrawler(bs[b].mode, task.tool) /\ ~bs[b].crawler
      THEN [task |-> Ended(task, tool_except(
                        BackendError("Backend not started"))),
            backends |-> bs]
    ELSE IF ReturnsAtOnce(bs[b].mode, task.tool)
      THEN [task |-> Ended(task, tool_return("data")), backends |-> bs]
    ELSE [task |-> [task EXCEPT !.pc = "calling", !.backend = b],
          backends |-> [bs EXCEPT ![b].used = TRUE]]

\* _get_backend, lines 29-33: the backend is created and kept, and started;
\* bs are the backends as they are now
CreateBackend(task, bs) ==
    LET new == Len(bs) + 1
        made == get_backend(task.mode)
        s == IF task.mode = "local" THEN LocalBackend_startup(made)
             ELSE CloudBackend_startup(made)
        all == Append(bs, s.b)
    IN  IF "exc" \in DOMAIN s
          THEN [task |-> Ended(task, tool_except(s.exc)), backends |-> all,
                backend |-> new]
        ELSE IF s.b.state = "starting"
          THEN [task |-> [task EXCEPT !.pc = "startup", !.backend = new],
                backends |-> all, backend |-> new]
        ELSE BeginCall(task, new, all) @@ [backend |-> new]

\* shutdown() awaits the closing of the crawler when there is one that has
\* something to close: cloud.py lines 33-36, local.py lines 43-46
ShutdownSuspends(b) ==
    b.crawler /\ (b.mode = "local" \/ b.used)

\* shutdown() has ended, returning (ok) or raising
AfterShutdown(bs, b, ok) ==
    IF ok /\ bs[b].crawler
      THEN [bs EXCEPT ![b].crawler = FALSE, ![b].state = "shutdown"]
      ELSE bs

\* ---------------------------------------------------------- specification
\* HTTPClient.__init__, lines 49-60: the key in effect and its two checks
HTTPClient_init_AnyPrefix(api_key, env) ==
    LET key == IF PyTruthy(api_key) THEN api_key ELSE env
    IN  IF ~PyTruthy(key)
          THEN ValueError("API key is required")
          ELSE [ok |-> TRUE, key |-> key]

HTTPClient_init(api_key, env) ==
    LET key == IF PyTruthy(api_key) THEN api_key ELSE env
    IN  IF ~PyTruthy(key)
          THEN ValueError("API key is required")
        ELSE IF ~(\/ StartsWith(key.chars, <<"s", "k", "_", "l", "i", "v", "e", "_">>)
                  \/ StartsWith(key.chars, <<"s", "k", "_", "t", "e", "s", "t", "_">>))
          THEN ValueError("Invalid API key format")
        ELSE [ok |-> TRUE, key |-> key]

\* api_key arguments: None, '', keys of both kinds, a key that is only the
\* prefix, and keys of another form
KeyArgs == { PyNone, Str(<<>>), Str(<<"s", "k", "_", "l", "i", "v", "e", "_", "a">>), Str(<<"s", "k", "_", "t", "e", "s", "t", "_", "a">>),
             Str(<<"s", "k", "_", "l", "i", "v", "e", "_">>), Str(<<"s", "k", "_", "l", "i", "v">>), Str(<<"S", "K", "_", "L", "I", "V", "E", "_", "a">>),
             Str(<<"x", "s", "k", "_", "t", "e", "s", "t", "_", "a">>) }
\* CRAWL4AI_API_KEY: unset, empty, a key, something else
EnvKeys == { PyNone, Str(<<>>), Str(<<"s", "k", "_", "t", "e", "s", "t", "_", "e">>), Str(<<"k", "e", "y">>) }

\* AsyncWebCrawler(...) has not been evaluated yet
NoCrawler ==
    [state |-> "unbuilt", api_key |-> PyNone, env |-> PyNone,
     key |-> PyNone, error |-> "", calls |-> 0, closes |-> 0,
     closing |-> NoClient]

\* a crawler constructed with a valid key
BuiltCrawler ==
    [state |-> "built", api_key |-> Str(<<"s", "k", "_", "l", "i", "v", "e", "_", "a">>), env |-> PyNone,
     key |-> Str(<<"s", "k", "_", "l", "i", "v", "e", "_", "a">>), error |-> "", calls |-> 0, closes |-> 0,
     closing |-> NoClient]

\* no public method has been called
NoCallYet ==
    /\ now = 0
    /\ api = "none"
    /\ args = [job_id |-> NoId, poll_interval |-> None, timeout |-> None,
               wait |-> FALSE, scan_only |-> FALSE]
    /\ pc = "idle"
    /\ wait_start = 0
    /\ scan = NoFrame
    /\ scan_result = NoResult
    /\ job = NoFrame
    /\ cur_job = NoResult
    /\ polls = 0
    /\ outcome = NoOut
    /\ given = NoGiven
    /\ http_pc = "idle"
    /\ http_path = ""
    /\ http_json = NoJson
    /\ attempt = 0
    /\ sent = 0
    /\ sleeps = <<>>
    /\ last_resp = NoResp
    /\ http_out = NoOut

\* the plugin is not in use
NoPlugin ==
    /\ environ = [mode |-> "cloud", file |-> "ok", key |-> "valid",
                  oss |-> FALSE, changes |-> 0]
    /\ backend = NoBackend
    /\ current_mode = NoMode
    /\ backends = <<>>
    /\ tasks = [t \in Tasks |-> IdleTask]
    /\ tool_calls = 0

\* a crawler just constructed with a valid key
Init ==
    /\ NoPlugin
    /\ max_retries \in 0..MaxRetriesArg
    /\ crawler = BuiltCrawler
    /\ client = NoClient
    /\ clients = <<>>
    /\ NoCallYet

Next ==
    \/ CallGetJob
    \/ CallWaitJob
    \/ CallDeepCrawl
    \/ CallRun
    \/ CallRunMany
    \/ CallGenerateSchema
    \/ CallCancelDeepCrawl
    \/ HttpAttempt
    \/ HttpBackoff
    \/ HttpExhausted
    \/ JobSleep
    \/ ScanSleep

Spec == Init /\ [][Next]_vars

\* every HTTP attempt ends (httpx enforces the client timeout) and every
\* sleep ends: the event loop keeps running the one task there is
FairSpec == Spec /\ WF_vars(Next)

\* ------------------------------------- construction, calls in turn, close
\* AsyncWebCrawler(api_key=k), lines 52-82 of crawler.py, with e in the
\* environment
Construct ==
    /\ crawler.state = "unbuilt"
    /\ \E k \in KeyArgs, e \in EnvKeys :
         LET r == HTTPClient_init(k, e)
         IN  crawler' = [crawler EXCEPT
                           !.state = IF r.ok THEN "built" ELSE "refused",
                           !.api_key = k,
                           !.env = e,
                           !.key = IF r.ok THEN r.key ELSE PyNone,
                           !.error = IF r.ok THEN "" ELSE r.error]
    /\ UNCHANGED <<pluginVars, client, clients, max_retries, now>>
    /\ UNCHANGED pollVars
    /\ UNCHANGED <<http_pc, http_path, http_json, attempt, sent, sleeps,
                   last_resp, http_out>>

\* a method of the crawler is called: there is a crawler to call it on
MethodCall ==
    /\ crawler.state = "built"
    /\ CallGetJob

\* the call has ended and its caller goes on to the next statement
CallerGoesOn ==
    /\ pc = "done"
    /\ crawler.calls < MaxCalls
    /\ crawler' = [crawler EXCEPT !.calls = @ + 1]
    /\ now' = now
    /\ api' = "none"
    /\ args' = NoArgs
    /\ pc' = "idle"
    /\ wait_start' = 0
    /\ scan' = NoFrame
    /\ scan_result' = NoResult
    /\ job' = NoFrame
    /\ cur_job' = NoResult
    /\ polls' = 0
    /\ outcome' = NoOut
    /\ given' = NoGiven
    /\ http_pc' = "idle"
    /\ http_path' = ""
    /\ http_json' = NoJson
    /\ attempt' = 0
    /\ sent' = 0
    /\ sleeps' = <<>>
    /\ last_resp' = NoResp
    /\ http_out' = NoOut
    /\ UNCHANGED <<pluginVars, client, clients, max_retries>>

\* AsyncWebCrawler.close or __aexit__, lines 860-865 of crawler.py, between
\* two calls
Close ==
    /\ crawler.state = "built"
    /\ pc \in {"idle", "done"}
    /\ crawler.closes < MaxCloses
    /\ crawler' = [crawler EXCEPT !.closes = @ + 1]
    /\ HTTPClient_close
    /\ UNCHANGED <<pluginVars, max_retries, now>>
    /\ UNCHANGED pollVars
    /\ UNCHANGED <<http_pc, http_path, http_json, attempt, sent, sleeps,
                   last_resp, http_out>>

LifeInit ==
    /\ NoPlugin
    /\ max_retries \in 0..MaxRetriesArg
    /\ crawler = NoCrawler
    /\ client = NoClient
    /\ clients = <<>>
    /\ NoCallYet

LifeNext ==
    \/ Construct
    \/ MethodCall
    \/ HttpAttempt
    \/ HttpBackoff
    \/ HttpExhausted
    \/ CallerGoesOn
    \/ Close

LifeSpec == LifeInit /\ [][LifeNext]_vars

\* ------------------------------------------- plugin: tool calls and reset
\* what a step of task t makes of the plugin's globals: r has the task, the
\* backends and, when _get_backend assigned it, the new _backend
Assign(t, r, mode) ==
    /\ tasks' = [tasks EXCEPT ![t] = r.task]
    /\ backends' = r.backends
    /\ IF "backend" \in DOMAIN r
         THEN backend' = r.backend /\ current_mode' = mode
         ELSE UNCHANGED <<backend, current_mode>>

\* a tool function is called, lines 62-75 with _get_backend, lines 15-33:
\* it runs until it first has to wait
ToolCall(t) ==
    /\ tasks[t].pc = "idle"
    /\ tool_calls < MaxToolCalls
    /\ tool_calls' = tool_calls + 1
    /\ \E tool \in ToolsOf(t) :
         LET cfg == load_config
             task == [IdleTask EXCEPT !.tool = tool,
                        !.mode = IF cfg.ok THEN cfg.mode ELSE NoMode]
         IN  IF ~cfg.ok
               THEN Assign(t, [task |-> Ended(task, tool_except(cfg.exc)),
                               backends |-> backends], NoMode)
             ELSE IF backend # NoBackend /\ current_mode = cfg.mode
               THEN Assign(t, BeginCall(task, backend, backends), NoMode)
             ELSE IF backend # NoBackend
                       /\ ShutdownSuspends(backends[backend])
               THEN Assign(t, [task |-> [task EXCEPT !.pc = "shutdown",
                                                     !.backend = backend],
                               backends |-> backends], NoMode)
             ELSE Assign(t, CreateBackend(task,
                              IF backend # NoBackend
                                THEN AfterShutdown(backends, backend, TRUE)
                                ELSE backends),
                         cfg.mode)
    /\ UNCHANGED environ
    /\ UNCHANGED sdkVars

\* _get_backend, lines 24-33: the shutdown of the old backend has ended,
\* and what it raised is dropped
ShutdownDone(t) ==
    /\ tasks[t].pc = "shutdown"
    /\ \E ok \in BOOLEAN :
         Assign(t, CreateBackend(tasks[t],
                     AfterShutdown(backends, tasks[t].backend, ok)),
                tasks[t].mode)
    /\ UNCHANGED <<environ, tool_calls>>
    /\ UNCHANGED sdkVars

\* _get_backend, lines 32-33: LocalBackend.startup has ended; when it
\* returned, the tool function calls what _backend now is
StartupDone(t) ==
    /\ tasks[t].pc = "startup"
    /\ \E ok \in BOOLEAN :
         LET b == tasks[t].backend
             bs == IF backends[b].state = "starting"
                     THEN [backends EXCEPT
                             ![b].state = IF ok THEN "started" ELSE "failed"]
                     ELSE backends
         IN  IF ok
               THEN Assign(t, BeginCall(tasks[t], backend, bs), NoMode)
               ELSE Assign(t, [task |-> Ended(tasks[t], tool_except(
                                 Exc("Exception", "browser not launched"))),
                               backends |-> bs], NoMode)
    /\ UNCHANGED <<environ, tool_calls>>
    /\ UNCHANGED sdkVars

\* the awaited backend method has ended
CallDone(t) ==
    /\ tasks[t].pc = "calling"
    /\ \E o \in CallOutcomes :
         tasks' = [tasks EXCEPT ![t] = Ended(tasks[t], o)]
    /\ UNCHANGED <<environ, backend, current_mode, backends, tool_calls>>
    /\ UNCHANGED sdkVars

\* what reset_backend returns
ResetReturn == tool_return("Backend reset. Next call will reinitialize.")

\* reset_backend, lines 36-46, until it first has to wait
ResetCall(t) ==
    /\ tasks[t].pc = "idle"
    /\ tool_calls < MaxToolCalls
    /\ tool_calls' = tool_calls + 1
    /\ LET task == [IdleTask EXCEPT !.tool = "reset_backend"]
       IN  IF backend = NoBackend
             THEN /\ tasks' = [tasks EXCEPT ![t] = Ended(task, ResetReturn)]
                  /\ UNCHANGED <<backend, current_mode, backends>>
           ELSE IF ShutdownSuspends(backends[backend])
             THEN /\ tasks' = [tasks EXCEPT
                                 ![t] = [task EXCEPT !.pc = "reset_shutdown",
                                                     !.backend = backend]]
                  /\ UNCHANGED <<backend, current_mode, backends>>
           ELSE /\ tasks' = [tasks EXCEPT ![t] = Ended(task, ResetReturn)]
                /\ backends' = AfterShutdown(backends, backend, TRUE)
                /\ backend' = NoBackend
                /\ current_mode' = NoMode
    /\ UNCHANGED environ
    /\ UNCHANGED sdkVars

\* reset_backend, lines 40-46: the shutdown has ended
ResetDone(t) ==
    /\ tasks[t].pc = "reset_shutdown"
    /\ \E ok \in BOOLEAN :
         backends' = AfterShutdown(backends, tasks[t].backend, ok)
    /\ backend' = NoBackend
    /\ current_mode' = NoMode
    /\ tasks' = [tasks EXCEPT ![t] = Ended(tasks[t], ResetReturn)]
    /\ UNCHANGED <<environ, tool_calls>>
    /\ UNCHANGED sdkVars

\* the host has the result of the call
TaskReturns(t) ==
    /\ tasks[t].pc = "done"
    /\ tasks' = [tasks EXCEPT ![t] = IdleTask]
    /\ UNCHANGED <<environ, backend, current_mode, backends, tool_calls>>
    /\ UNCHANGED sdkVars

\* CRAWL4AI_MODE or the mode of the config file is changed
ChangeMode ==
    /\ environ.changes < MaxModeChanges
    /\ environ' = [environ EXCEPT
                     !.mode = IF @ = "cloud" THEN "local" ELSE "cloud",
                     !.changes = @ + 1]
    /\ UNCHANGED <<backend, current_mode, backends, tasks, tool_calls>>
    /\ UNCHANGED sdkVars

\* the SDK variables where only the plugin is looked at
SdkUnused ==
    /\ max_retries = 3
    /\ crawler = NoCrawler
    /\ client = NoClient
    /\ clients = <<>>
    /\ NoCallYet

\* what the plugin may find: a config file that is not a JSON object, or a
\* good one with either mode, and then any api key with crawl4ai installed
\* or a valid api key without it
Environs ==
    { [mode |-> "cloud", file |-> "list", key |-> "valid", oss |-> TRUE,
       changes |-> 0] }
    \cup { [mode |-> m, file |-> "ok", key |-> k, oss |-> TRUE,
            changes |-> 0] :
             m \in {"cloud", "local"}, k \in {"none", "invalid", "valid"} }
    \cup { [mode |-> m, file |-> "ok", key |-> "valid", oss |-> FALSE,
            changes |-> 0] : m \in {"cloud", "local"} }

PluginInit ==
    /\ environ \in Environs
    /\ backend = NoBackend
    /\ current_mode = NoMode
    /\ backends = <<>>
    /\ tasks = [t \in Tasks |-> IdleTask]
    /\ tool_calls = 0
    /\ SdkUnused

PluginNext ==
    \/ \E t \in Tasks : ToolCall(t)
    \/ \E t \in Tasks : ShutdownDone(t)
    \/ \E t \in Tasks : StartupDone(t)
    \/ \E t \in Tasks : CallDone(t)
    \/ \E t \in Tasks : ResetCall(t)
    \/ \E t \in Tasks : ResetDone(t)
    \/ \E t \in Tasks : TaskReturns(t)
    \/ ChangeMode

PluginSpec == PluginInit /\ [][PluginNext]_vars

\* ------------------------------------- close() while requests are made
\* close, lines 180-183, up to its await: with an open client it calls
\* aclose(), which marks the client closed (is_closed) before it waits for
\* the connections to close; without one it returns
CloseBegin ==
    /\ crawler.state = "built"
    /\ crawler.closing = NoClient
    /\ crawler.closes < MaxCloses
    /\ IF client # NoClient /\ clients[client] # "closed"
         THEN /\ clients' = [clients EXCEPT ![client] = "closed"]
              /\ crawler' = [crawler EXCEPT !.closing = client]
         ELSE /\ clients' = clients
              /\ crawler' = [crawler EXCEPT !.closes = @ + 1]
    /\ client' = client
    /\ UNCHANGED <<pluginVars, max_retries, now>>
    /\ UNCHANGED pollVars
    /\ UNCHANGED <<http_pc, http_path, http_json, attempt, sent, sleeps,
                   last_resp, http_out>>

\* close, line 184: aclose() has returned and the reference is cleared,
\* whatever it refers to by now
CloseEnd ==
    /\ crawler.closing # NoClient
    /\ client' = NoClient
    /\ clients' = clients
    /\ crawler' = [crawler EXCEPT !.closing = NoClient, !.closes = @ + 1]
    /\ UNCHANGED <<pluginVars, max_retries, now>>
    /\ UNCHANGED pollVars
    /\ UNCHANGED <<http_pc, http_path, http_json, attempt, sent, sleeps,
                   last_resp, http_out>>

\* one task makes requests one after the other while another calls close()
RaceNext ==
    \/ MethodCall
    \/ HttpAttempt
    \/ HttpBackoff
    \/ HttpExhausted
    \/ CallerGoesOn
    \/ CloseBegin
    \/ CloseEnd

RaceSpec == Init /\ [][RaceNext]_vars

\* ------------------------------------------------------------ properties
\* the statuses the documentation calls terminal for a crawl job
TerminalStatuses == {"completed", "partial", "failed", "cancelled"}
\* the statuses with which the server ends a scan job
ScanFinalStatuses == {"completed", "partial", "failed", "cancelled",
                      "no_urls"}

JobTimeout == Raise("TimeoutError", None, "Timeout waiting for job")
ScanTimeout == Raise("TimeoutError", None, "Timeout waiting for scan job")

\* the seconds waited since the public method began to wait
Elapsed == now - wait_start

Is5xx(resp) ==
    resp.kind = "response" /\ resp.status_code \in 500..599
Is4xx(resp) ==
    resp.kind = "response" /\ resp.status_code \in 400..499

\* C1: wait_job returns a CrawlJob only in a terminal status: the regular
\* loop does not return while the reported status is not terminal, returns
\* the first job whose status is terminal, and sends nothing once it has
\* ended; the CrawlJob synthesised from a scan is terminal too.
C1_WaitJobReturnsTerminal ==
    /\ [](api = "wait_job" /\ pc = "done" /\ outcome.kind = "return"
            => /\ outcome.value.type = "CrawlJob"
               /\ outcome.value.status \in TerminalStatuses)
    /\ [](cur_job # NoResult /\ api \in {"wait_job", "deep_crawl"}
            => IF cur_job.status \in TerminalStatuses
                 THEN pc = "done" /\ outcome = Return(cur_job)
                 ELSE pc = "job_sleep" \/ (pc = "done" /\ outcome = JobTimeout))
    /\ [](api = "wait_job" /\ pc = "done" => http_pc = "done")
    /\ [][pc = "done" => UNCHANGED <<http_pc, sent>>]_vars

\* wait_job on a regular id has returned a job after polling more than once
C1_Witness ==
    /\ api = "wait_job"
    /\ args.job_id = JOB_ID
    /\ pc = "done"
    /\ outcome.kind = "return"
    /\ outcome.value.status = "partial"
    /\ polls >= 1

\* C2 (as claimed): every response with a status in 500..599 is followed by
\* a backoff sleep and another attempt while attempts remain, and raises
\* only on the last permitted attempt.
C2_Every5xxRetried ==
    Is5xx(last_resp)
      => IF sent < max_retries
           THEN http_pc = "backoff"
           ELSE http_pc = "done" /\ http_out.kind = "raise"

\* the error type the documentation gives for a 4xx response
Expected4xx(resp) ==
    LET code == resp.status_code
        detail == ParseDetail(resp)
    IN  CASE code = 401 -> "AuthenticationError"
          [] code = 404 -> "NotFoundError"
          [] code = 400 -> "ValidationError"
          [] code = 429 ->
               IF IsStr(detail) /\ Contains(Lower(detail.chars), RATE_LIMIT)
                 THEN "RateLimitError"
                 ELSE "QuotaExceededError"
          [] OTHER -> "CloudError"

\* C3 (as claimed): a response with a status in 400..499 makes request()
\* raise the typed error of that status on that very attempt, carrying the
\* status code, with no backoff sleep and no further request.
C3_TypedErrorOn4xx ==
    Is4xx(last_resp)
      => /\ http_pc = "done"
         /\ http_out.kind = "raise"
         /\ http_out.type = Expected4xx(last_resp)
         /\ http_out.status_code = last_resp.status_code
         /\ sent = attempt + 1
         /\ Len(sleeps) = attempt

\* C4: wait_job on a regular id with a timeout T > 0 ends: unless the
\* server reported a terminal status or a GET failed, it raises
\* TimeoutError, and does so only after more than T seconds.
C4_WaitJobTimesOut ==
    (api = "wait_job" /\ args.job_id = JOB_ID /\ Truthy(args.timeout))
      ~> /\ pc = "done"
         /\ \/ cur_job # NoResult /\ cur_job.status \in TerminalStatuses
            \/ http_out.kind = "raise"
            \/ outcome = JobTimeout /\ Elapsed > args.timeout

\* wait_job on a regular id has raised TimeoutError after polling
C4_Witness ==
    /\ api = "wait_job"
    /\ args.job_id = JOB_ID
    /\ Truthy(args.timeout)
    /\ pc = "done"
    /\ outcome = JobTimeout
    /\ cur_job.status \in {"pending", "processing"}
    /\ polls >= 1

\* C5 (as claimed): wait_job on a scan id with a timeout T gives the crawl
\* phase only the time the scan phase left, and never goes on waiting once
\* more than T seconds have passed: it raises TimeoutError instead.
C5_ScanWaitBoundedByTimeout ==
    api = "wait_job" /\ IsScanId(args.job_id) /\ Truthy(args.timeout)
      => /\ job.active =>
              job.timeout = Max0(args.timeout - (job.start_time - wait_start))
         /\ pc \in {"scan_sleep", "job_sleep"} => Elapsed <= args.timeout

\* C6 (as claimed): once the server has reported a final status for the
\* scan job (completed, partial, failed, cancelled or no_urls) the scan
\* loop polls no more and its result is returned to the caller.
C6_ScanLoopStopsOnFinal ==
    scan_result # NoResult /\ scan_result.status \in ScanFinalStatuses
      => /\ pc # "scan_sleep"
         /\ outcome # ScanTimeout

\* C7: on a scan id wait_job polls the scan endpoint first and the crawl
\* job only after a scan reply that is final and names the crawl job; it
\* returns the terminal crawl job, or else a CrawlJob built from the scan
\* with job_id the scan id, total = completed = discovered count, failed 0.
C7_ScanThenCrawl ==
    api = "wait_job" /\ IsScanId(args.job_id)
      => /\ pc \in {"scan_get", "scan_sleep"}
              => http_path = "scan" /\ ~job.active
         /\ (job.active \/ http_path = "job")
              => /\ scan_result # NoResult
                 /\ scan_result.status \in ScanFinalStatuses
                 /\ TruthyStr(scan_result.crawl_job_id)
                 /\ job.active
                 /\ job.job_id = scan_result.crawl_job_id
         /\ (pc = "done" /\ outcome.kind = "return")
              => IF job.active
                   THEN /\ outcome.value = cur_job
                        /\ cur_job.status \in TerminalStatuses
                   ELSE /\ scan_result.status \in ScanFinalStatuses
                        /\ ~TruthyStr(scan_result.crawl_job_id)
                        /\ outcome.value.type = "CrawlJob"
                        /\ outcome.value.job_id = args.job_id
                        /\ outcome.value.progress =
                             [total |-> scan_result.discovered_count,
                              completed |-> scan_result.discovered_count,
                              failed |-> 0]

\* wait_job on a scan id has polled the scan more than once and returned
\* the crawl job the scan chained into
C7_Witness ==
    /\ api = "wait_job"
    /\ IsScanId(args.job_id)
    /\ pc = "done"
    /\ outcome.kind = "return"
    /\ job.active
    /\ job.start_time > wait_start

\* the failures after which request() may try again
Retryable(resp) ==
    \/ resp.kind \in {"timeout", "neterror"}
    \/ Is5xx(resp) /\ resp.status_code # 504

\* C8: within one request() call the k-th backoff sleep (k from 0) lasts
\* 2^k seconds whatever failed (5xx, client timeout, network error); every
\* further attempt follows exactly one sleep, and no sleep follows the last
\* attempt of the call.
C8_ExponentialBackoff ==
    /\ [](\A k \in 1..Len(sleeps) : sleeps[k] = 2 ^ (k - 1))
    /\ [](Len(sleeps) = attempt)
    /\ [](http_pc = "backoff"
            => Retryable(last_resp) /\ attempt < max_retries - 1)
    /\ [](http_pc = "done" /\ sent > 0 => Len(sleeps) = sent - 1)
    /\ [][http_pc = "backoff"
            => /\ now' - now = 2 ^ attempt
               /\ sleeps' = Append(sleeps, 2 ^ attempt)
               /\ sent' = sent]_vars

\* a call whose attempts all timed out has slept 1s and 2s and then raised
C8_Witness ==
    /\ http_pc = "done"
    /\ http_out = Raise("TimeoutError", None, "Request timed out")
    /\ sleeps = <<1, 2>>
    /\ sent = 3

\* C9 (as claimed): when every attempt fails with a retryable error,
\* request() sends max_retries + 1 requests before it raises.
C9_InitialAttemptPlusRetries ==
    /\ http_pc = "done"
    /\ http_out.kind = "raise"
    /\ \/ http_out.type = "ServerError"
       \/ http_out.message \in {"Request timed out", "Request failed",
                                "Max retries exceeded"}
    => sent = max_retries + 1

\* C10 (as claimed): deep_crawl(wait=True, timeout=T) gives the crawl phase
\* less than a full T once the scan phase has used time, and never goes on
\* waiting once more than T seconds have passed.
C10_DeepCrawlBoundedByTimeout ==
    api = "deep_crawl" /\ args.wait /\ Truthy(args.timeout)
      => /\ (job.active /\ job.start_time > wait_start)
              => job.timeout # None /\ job.timeout < args.timeout
         /\ pc \in {"scan_sleep", "job_sleep"} => Elapsed <= args.timeout

\* C11 (as claimed): deep_crawl returns by mode: with wait=False the
\* DeepCrawlResult parsed from the POST response, no polling GET issued;
\* with wait=True and scan_only=True the finished scan's DeepCrawlResult;
\* with wait=True and scan_only=False a CrawlJob in a terminal status.
C11_DeepCrawlReturnsByMode ==
    api = "deep_crawl" /\ pc = "done" /\ outcome.kind = "return"
      => IF ~args.wait
           THEN /\ http_path = "deep"
                /\ outcome.value = DeepCrawlResult_from_dict(http_out.value)
           ELSE IF args.scan_only
             THEN /\ outcome.value.type = "DeepCrawlResult"
                  /\ outcome.value = scan_result
                  /\ DeepCrawlResult_is_complete(scan_result)
             ELSE /\ outcome.value.type = "CrawlJob"
                  /\ outcome.value.status \in TerminalStatuses

\* the urls the caller supplied to the call in progress ('' counts as none)
SuppliedUrls ==
    (IF "url" \in DOMAIN given /\ PyTruthy(given.url)
       THEN {given.url} ELSE {})
    \cup (IF "urls" \in DOMAIN given /\ IsList(given.urls)
            THEN { given.urls.items[i] : i \in DOMAIN given.urls.items }
            ELSE {})

\* C12 (as claimed): every url a caller supplies to run, run_many,
\* deep_crawl or generate_schema is placed in the request body in the form
\* normalize_url gives it, and a call with a url that normalize_url rejects
\* raises ValueError without any HTTP request.
C12_UrlsNormalizedBeforeRequest ==
    given # NoGiven
      => IF \E u \in SuppliedUrls : ~normalize_url(u.chars).ok
           THEN /\ pc = "done"
                /\ outcome.kind = "raise"
                /\ outcome.type = "ValueError"
                /\ http_pc = "idle"
           ELSE http_json # NoJson
                  => /\ "url" \in DOMAIN http_json.body
                          => http_json.body.url
                               = normalize_url(given.url.chars).url
                     /\ "urls" \in DOMAIN http_json.body
                          => \A i \in DOMAIN http_json.body.urls :
                               http_json.body.urls[i]
                                 = normalize_url(given.urls.items[i].chars).url

\* the fields the claim calls server-controlled
ServerControlledCrawler ==
    {"cache_mode", "session_id", "bypass_cache", "no_cache_read",
     "no_cache_write", "disable_cache"}
ServerControlledBrowser ==
    {"cdp_url", "create_isolated_context", "cdp_cleanup_on_close",
     "browser_context_id", "target_id", "use_managed_browser",
     "browser_mode", "user_data_dir", "chrome_channel"}

\* the fields of a config given as a dataclass or a dict
GivenFields(config) ==
    IF config.form \in {"dataclass", "dict"} THEN config.data ELSE EmptyMap

\* the body carries under key every non-None field of config that is not in
\* controlled, with its value, and no field that is in controlled
SentSanitized(body, key, config, controlled) ==
    LET fields == GivenFields(config)
        carried == IF key \in DOMAIN body THEN body[key] ELSE EmptyMap
    IN  /\ DOMAIN carried \cap controlled = {}
        /\ \A k \in DOMAIN fields \ controlled :
             fields[k] # NoneField
               => k \in DOMAIN carried /\ carried[k] = fields[k]

\* the calls whose body carries the configs, while their request is out
ConfigsSent ==
    /\ api \in {"run", "run_many", "deep_crawl"}
    /\ given # NoGiven
    /\ http_json # NoJson

\* the strategy that decides whether a browser is used
BrowserStrategy ==
    IF api = "deep_crawl" THEN given.crawl_strategy ELSE given.strategy

C14_RunManyWaitReturnsResults ==
    api = "run_many" /\ args.wait /\ pc = "done" /\ outcome.kind = "return"
      => /\ cur_job # NoResult
         /\ cur_job.status \in TerminalStatuses
         /\ IsList(outcome.value)
         /\ Len(outcome.value.items) = Len(WaitedUrls)
         /\ \A i \in DOMAIN outcome.value.items :
              outcome.value.items[i].type = "CrawlResult"

\* C15 (as claimed): after a successful cancel POST, cancel_deep_crawl
\* returns a DeepCrawlResult with the given job id, status "cancelled" and
\* the discovered-url count the server reported; it raises only when the
\* request itself failed.
C15_CancelReturnsCancelled ==
    api = "cancel_deep_crawl" /\ pc = "done"
      => IF http_out.kind = "return"
           THEN /\ outcome.kind = "return"
                /\ outcome.value.type = "DeepCrawlResult"
                /\ outcome.value.job_id = args.job_id
                /\ outcome.value.status = "cancelled"
                /\ outcome.value.discovered_count
                     = Get(http_out.value, "discovered_urls", 0)
           ELSE outcome = http_out

\* the call was refused with ValueError before any request was made
RefusedBeforeRequest ==
    /\ pc = "done"
    /\ outcome.kind = "raise"
    /\ outcome.type = "ValueError"
    /\ http_pc = "idle"
    /\ sent = 0

\* exactly one of the keys a and b is in the body that is being posted
ExactlyOneKey(a, b) ==
    /\ http_json # NoJson
    /\ (a \in DOMAIN http_json.body) # (b \in DOMAIN http_json.body)

\* C16 (as claimed): generate_schema raises ValueError before any request
\* when neither html nor urls is provided, when both are, or when more than
\* 3 urls are given; otherwise the posted body has exactly one of the keys
\* html and urls.
C16_SchemaExactlyOneSource ==
    api = "generate_schema" /\ given # NoGiven
      => IF \/ ~PyTruthy(given.html) /\ ~PyTruthy(given.urls)
            \/ PyTruthy(given.html) /\ PyTruthy(given.urls)
            \/ IsList(given.urls) /\ Len(given.urls.items) > 3
           THEN RefusedBeforeRequest
           ELSE pc = "schema_post" /\ ExactlyOneKey("html", "urls")

\* C17: deep_crawl raises ValueError without any request when neither url
\* nor source_job is given and when both are; every accepted call posts a
\* body with exactly one of the keys url and source_job_id.
C17_DeepCrawlExactlyOneSource ==
    api = "deep_crawl" /\ given # NoGiven
      => IF PyTruthy(given.url) = PyTruthy(given.source_job)
           THEN RefusedBeforeRequest
           ELSE pc = "dc_post" /\ ExactlyOneKey("url", "source_job_id")

\* deep_crawl was refused for having both, and a crawl from an earlier job
\* is being posted
C17_Witness ==
    /\ api = "deep_crawl"
    /\ given # NoGiven
    /\ \/ PyTruthy(given.url) /\ PyTruthy(given.source_job)
          /\ RefusedBeforeRequest
       \/ ~PyTruthy(given.url) /\ PyTruthy(given.source_job)
          /\ pc = "dc_post"
          /\ "source_job_id" \in DOMAIN http_json.body

\* the reference is to an open client, no open client is unreferenced, a
\* request in flight has its client, and no client exists before the first
\* request
ClientInv ==
    /\ client # NoClient
         => client \in DOMAIN clients /\ clients[client] = "open"
    /\ \A i \in DOMAIN clients : clients[i] = "open" => client = i
    /\ http_pc \in {"send", "backoff"} => client # NoClient
    /\ api = "none" /\ crawler.calls = 0 => clients = <<>>

\* the client and the reference change in two ways only: a request that
\* finds no client makes one, and a close() that finds one closes it and
\* clears the reference
ClientStep ==
    /\ client' # client \/ clients' # clients
         => \/ /\ pc = "idle" /\ pc' # "idle"
               /\ client = NoClient
               /\ clients' = Append(clients, "open")
               /\ client' = Len(clients')
            \/ /\ crawler'.closes = crawler.closes + 1
               /\ client # NoClient
               /\ clients' = [clients EXCEPT ![client] = "closed"]
               /\ client' = NoClient
    /\ crawler'.closes = crawler.closes + 1
         => /\ client' = NoClient
            /\ \A i \in DOMAIN clients' : clients'[i] = "closed"
            /\ pc' = pc /\ outcome' = outcome

\* C18: the client is created by the first request and reused by later
\* ones, close() closes it and clears the reference, a close() with no open
\* client changes nothing, and a request after close() makes a new client.
C18_ClientLifecycle == []ClientInv /\ [][ClientStep]_vars

\* after a close() before any request, a request, a close() and a second
\* close(), a request is served by a second client
C18_Witness ==
    /\ crawler.closes = 3
    /\ Len(clients) = 2
    /\ clients[1] = "closed"
    /\ client = 2
    /\ pc = "done"
    /\ outcome.kind = "return"

\* the key in effect: the argument, or the variable when there is none
EffectiveKey ==
    IF IsNone(crawler.api_key) \/ crawler.api_key.chars = <<>>
      THEN crawler.env
      ELSE crawler.api_key

\* the key is there, and it has one of the two prefixes
KeyPresent(k) == ~IsNone(k) /\ Len(k.chars) > 0
KeyWellFormed(k) ==
    /\ Len(k.chars) >= 8
    /\ SubSeq(k.chars, 1, 8) \in {<<"s", "k", "_", "l", "i", "v", "e", "_">>, <<"s", "k", "_", "t", "e", "s", "t", "_">>}

\* C20: constructing the crawler succeeds exactly when the key in effect is
\* non-empty and starts with sk_live_ or sk_test_; otherwise ValueError is
\* raised, 'API key is required' for a missing key and 'Invalid API key
\* format' for a wrong prefix, and nothing is ever requested.
C20_KeyValidated ==
    crawler.state # "unbuilt"
      => IF KeyPresent(EffectiveKey) /\ KeyWellFormed(EffectiveKey)
           THEN crawler.state = "built" /\ crawler.key = EffectiveKey
           ELSE /\ crawler.state = "refused"
                /\ crawler.error = IF KeyPresent(EffectiveKey)
                                     THEN "Invalid API key format"
                                     ELSE "API key is required"
                /\ pc = "idle"
                /\ http_pc = "idle"
                /\ clients = <<>>

\* a crawler constructed with the key of the environment has been served
C20_Witness ==
    /\ crawler.state = "built"
    /\ IsNone(crawler.api_key)
    /\ crawler.key = crawler.env
    /\ pc = "done"
    /\ sent > 0

\* C19: a tool function never lets an exception of backend creation,
\* startup or the backend call through: it returns a dict that is either
\* {success: True, data} or {success: False, error} with a string.
C19_ToolsReturnDicts ==
    \A t \in Tasks :
      tasks[t].pc = "done" /\ tasks[t].tool \in Tools
        => /\ tasks[t].result.kind = "return"
           /\ LET d == tasks[t].result.value
              IN  IF d.success
                    THEN DOMAIN d = {"success", "data"}
                    ELSE /\ DOMAIN d = {"success", "error"}
                         /\ d.error \in STRING

\* tool calls have ended on an exception that is not a BackendError, raised
\* by startup, and on a BackendError raised by the backend call
C19_Witness ==
    \E t, u \in Tasks :
      /\ tasks[t].pc = "done" /\ tasks[t].tool \in Tools
      /\ tasks[t].result.value
           = [success |-> FALSE, error |-> "browser not launched"]
      /\ tasks[u].pc = "done" /\ tasks[u].tool \in Tools
      /\ tasks[u].result.value = [success |-> FALSE, error |-> "call failed"]

\* ---- C21: what the claim says of normalize_url, stated on its input and
\* its result
\* the input is empty or only whitespace
BlankUrl(u) == \A i \in DOMAIN u : u[i] = " "

\* the input names a scheme other than http and https: before '://', or one
\* of the schemes that are written without '//' (mailto:, tel:, ...)
OtherScheme(u) ==
    \/ /\ Contains(Strip(u), <<":", "/", "/">>)
       /\ ~StartsWith(Strip(u), <<"/", "/">>)
       /\ Lower(SplitHead(Strip(u), <<":", "/", "/">>)) \notin VALID_SCHEMES
    \/ \E s \in INVALID_SCHEMES : StartsWith(Lower(Strip(u)), s \o <<":">>)

\* the scheme the claim gives an accepted input
ExpectedScheme(u) ==
    IF Contains(Strip(u), <<":", "/", "/">>) /\ ~StartsWith(Strip(u), <<"/", "/">>)
      THEN Lower(SplitHead(Strip(u), <<":", "/", "/">>))
    ELSE IF StartsWith(Strip(u), <<"/", "/">>) THEN <<"h", "t", "t", "p", "s">>
    ELSE IF LOCALHOST_PATTERN(Strip(u)) \/ IP_PATTERN(Strip(u))
      THEN <<"h", "t", "t", "p">>
    ELSE <<"h", "t", "t", "p", "s">>

\* n is in the form the claim describes, for the input u
CanonicalFor(u, n) ==
    The({ /\ p.scheme \in VALID_SCHEMES
          /\ p.scheme = ExpectedScheme(u)
          /\ StartsWith(n, p.scheme \o <<":", "/", "/">>)
          /\ p.netloc = Lower(p.netloc)
          /\ ~(p.scheme = <<"h", "t", "t", "p", "s">>
               /\ RFind(p.netloc, <<":", "4", "4", "3">>) = Len(p.netloc) - 4
               /\ Len(p.netloc) >= 4)
          /\ ~(p.scheme = <<"h", "t", "t", "p">>
               /\ RFind(p.netloc, <<":", "8", "0">>) = Len(p.netloc) - 3
               /\ Len(p.netloc) >= 3)
          /\ p.path # <<"/">>
          /\ ~Contains(n, <<"#">>) :
          p \in {urlparse(n)} })

\* the outcome of the run call in progress agrees with the result r of
\* normalize_url, which build_crawl_request applies to a url that is not
\* '': refused before any request, or r.url in the posted body
RunAgrees(r) ==
    IF r.ok THEN /\ http_json # NoJson
                 /\ http_json.body.url = r.url
            ELSE RefusedBeforeRequest

\* C21 (as claimed): normalize_url returns, for every input it accepts, a
\* URL with a lower-case scheme http or https (https added to scheme-less
\* domains and //-relative URLs, http to scheme-less localhost and IPv4),
\* a lower-case host, no default port, no root-only path and no fragment;
\* it raises ValueError for blank input and for any scheme other than
\* http and https; and was_modified tells whether the URL differs from the
\* input.
C21_NormalizeUrlContract ==
    api = "run" /\ given # NoGiven
      => The({ /\ PyTruthy(given.url) => RunAgrees(r)
               /\ BlankUrl(given.url.chars) \/ OtherScheme(given.url.chars)
                    => ~r.ok
               /\ r.ok => /\ CanonicalFor(given.url.chars, r.url)
                          /\ r.was_modified = (r.url # given.url.chars) :
               r \in {normalize_url(given.url.chars)} })

\* ---- C22
\* a response with status < 400 whose body is empty or a JSON object
ParsedSuccess(resp) ==
    /\ resp.kind = "response"
    /\ resp.status_code < 400
    /\ resp.body.form # "malformed"

\* C22: a client timeout, a network error and a 5xx other than 504 are
\* followed by another attempt while attempts are left; a response with
\* status < 400 ends the call at once, which returns the JSON of that
\* response ({} for an empty body) whatever failed before it; on the last
\* permitted attempt a client timeout raises TimeoutError, a network error
\* CloudError and such a 5xx ServerError with the status code of the
\* response.  (A success body that is not JSON is the subject of C24.)
C22_TransientFailuresRetried ==
    /\ Retryable(last_resp) /\ attempt < max_retries - 1
         => http_pc = "backoff"
    /\ ParsedSuccess(last_resp)
         => /\ http_pc = "done"
            /\ sent = attempt + 1
            /\ Len(sleeps) = attempt
            /\ http_out = Return(IF last_resp.body.form = "empty"
                                   THEN EmptyDict ELSE last_resp.body)
    /\ Retryable(last_resp) /\ attempt = max_retries - 1
         => /\ http_pc = "done"
            /\ sent = max_retries
            /\ http_out.kind = "raise"
            /\ last_resp.kind = "timeout"
                 => http_out.type = "TimeoutError"
            /\ last_resp.kind = "neterror"
                 => http_out.type = "CloudError"
            /\ last_resp.kind = "response"
                 => /\ http_out.type = "ServerError"
                    /\ http_out.status_code = last_resp.status_code

\* after two failed attempts the third got an empty 200, and {} came back
C22_Witness ==
    /\ http_pc = "done"
    /\ attempt = 2
    /\ sleeps = <<1, 2>>
    /\ sent = 3
    /\ last_resp = [kind |-> "response", status_code |-> 200,
                    body |-> EmptyBody]
    /\ http_out = Return(EmptyDict)

\* ---- C23
\* C23 (as claimed): in wait_job and in _wait_scan_job the status is
\* tested before the timeout: TimeoutError is raised by a loop only after a
\* GET of that loop has been answered, a poll that observes a terminal
\* status makes the loop return even when the timeout has elapsed, and
\* TimeoutError is never raised when the last observed status is terminal.
C23_StatusCheckedBeforeTimeout ==
    /\ outcome = JobTimeout
         => /\ sent >= 1
            /\ cur_job # NoResult
            /\ cur_job.status \notin TerminalStatuses
    /\ outcome = ScanTimeout
         => /\ sent >= 1
            /\ scan_result # NoResult
            /\ scan_result.status \notin TerminalStatuses
    /\ job # NoFrame /\ cur_job # NoResult
         /\ cur_job.status \in TerminalStatuses
         => pc = "done" /\ outcome.kind = "return"
    /\ scan # NoFrame /\ scan_result # NoResult
         /\ scan_result.status \in TerminalStatuses
         => pc # "scan_sleep"

\* ---- C24
\* errors.py: CloudError and the classes derived from it
CloudErrors ==
    {"CloudError", "AuthenticationError", "RateLimitError",
     "QuotaExceededError", "NotFoundError", "ValidationError",
     "TimeoutError", "ServerError"}

\* C24 (as claimed): whatever the server answers, request() returns a dict
\* or raises CloudError or one of its subclasses; no exception of another
\* type escapes.
C24_OnlyCloudErrorEscapes ==
    http_pc = "done"
      => \/ http_out.kind = "return" /\ http_out.value.form = "json"
         \/ http_out.kind = "raise" /\ http_out.type \in CloudErrors

\* ---- C25
\* the backends whose startup() has returned and whose crawler has not been
\* taken away by shutdown()
StartedBackends ==
    { b \in DOMAIN backends :
        backends[b].state = "started" /\ backends[b].crawler }

\* task t enters a tool function in this step
ToolCalled(t) == tasks[t].pc = "idle" /\ tasks'[t].tool \in Tools

\* task t leaves reset_backend in this step
ResetEnds(t) ==
    /\ tasks[t].pc # "done"
    /\ tasks'[t].pc = "done"
    /\ tasks'[t].tool = "reset_backend"

\* a backend is created in this step
BackendCreated == Len(backends') = Len(backends) + 1

\* what the claim says of one step of the plugin
SingletonStep ==
    /\ BackendCreated /\ backend # NoBackend
         => backends'[backend].state \notin {"starting", "started"}
    /\ \A t \in Tasks :
         /\ ToolCalled(t) /\ load_config.ok /\ backend # NoBackend
              /\ current_mode = load_config.mode
              => backends' = backends \/
                 backends' = [backends EXCEPT ![backend].used = TRUE]
         /\ ToolCalled(t) /\ load_config.ok /\ backend = NoBackend
              => BackendCreated /\ backend' = Len(backends')
         /\ ResetEnds(t) => backend' = NoBackend /\ current_mode' = NoMode

\* C25 (as claimed): at most one backend is started and not yet shut down;
\* when the configured mode differs from that of the cached backend the
\* old backend is shut down before the new one is created; when it is the
\* same the cached backend is used without another startup; reset_backend
\* ends with the cached backend and mode cleared, so that the next tool
\* call creates a backend.
C25_BackendSingleton ==
    /\ [](Cardinality(StartedBackends) <= 1)
    /\ [][SingletonStep]_vars

\* ---- C26
\* _get_backend returns the cached backend to task t in this step, line 21
CachedReturned(t) ==
    /\ ToolCalled(t)
    /\ load_config.ok
    /\ backend # NoBackend
    /\ current_mode = load_config.mode

\* the tool function fell over a backend without a crawler
NotStartedResult ==
    tool_except(BackendError("Backend not started"))

\* C26 (as claimed): every backend that _get_backend returns has completed
\* startup(): a backend whose startup raised is not kept as _backend, a
\* call that finds a cached backend finds a started one, also while
\* another call's startup is pending, and no tool call fails with
\* 'Backend not started'.
C26_ReturnedBackendStarted ==
    /\ [](backend # NoBackend => backends[backend].state # "failed")
    /\ [](\A t \in Tasks : tasks[t].result # NotStartedResult)
    /\ [][\A t \in Tasks :
            CachedReturned(t) => backends[backend].state = "started"]_vars

\* ---- C27
\* the clients that _get_client made and nothing has closed
OpenClients == { i \in DOMAIN clients : clients[i] = "open" }

\* C27 (as claimed): however close() and request() interleave, a client
\* that _get_client made is referenced by self._client until it is closed,
\* so that no open client remains once the calls have ended and a close()
\* has left the reference cleared.
C27_NoClientOrphaned ==
    /\ \A i \in OpenClients : client = i
    /\ pc \in {"idle", "done"} /\ crawler.closing = NoClient
         /\ client = NoClient
         => OpenClients = {}

\* ---- C28
\* the body deep_crawl is posting
DeepBody == http_json.body

\* C28 (as claimed): whatever the strategy, the body of POST /v1/crawl/deep
\* carries the discovery options the caller passed: scan_only=True as
\* scan_only: true, include_html=True as include_html: true, and
\* include_patterns, exclude_patterns and filters as a filters entry that
\* holds them.
C28_DiscoveryOptionsSent ==
    api = "deep_crawl" /\ pc = "dc_post" /\ http_json # NoJson
      => /\ args.scan_only
              => "scan_only" \in DOMAIN DeepBody /\ DeepBody.scan_only
         /\ given.include_html
              => "include_html" \in DOMAIN DeepBody /\ DeepBody.include_html
         /\ \/ DictTruthy(given.filters)
            \/ PyTruthy(given.include_patterns)
            \/ PyTruthy(given.exclude_patterns)
              => /\ "filters" \in DOMAIN DeepBody
                 /\ PyTruthy(given.include_patterns)
                      => DeepBody.filters.include_patterns
                           = given.include_patterns
                 /\ PyTruthy(given.exclude_patterns)
                      => DeepBody.filters.exclude_patterns
                           = given.exclude_patterns
                 /\ DictTruthy(given.filters)
                      => \A k \in DOMAIN given.filters :
                           k \in DOMAIN DeepBody.filters

====
